---- MODULE Spec2Model ----
(***************************************************************************)
(* A model of the job pipeline of yiwen-ai/jarvis: the translating,        *)
(* summarizing, message-translating and embedding handlers and background  *)
(* jobs, the artifact rows they write, and the retry policy of the LLM     *)
(* client.                                                                 *)
(*                                                                         *)
(* Every subsystem has its own specification over the shared variables;    *)
(* the variables a specification does not use keep their initial value.    *)
(***************************************************************************)
EXTENDS Integers, Sequences, FiniteSets, TLC

(***************************************************************************)
(* Bounds of the model.                                                    *)
(***************************************************************************)
\* the largest number of units a job is started with
MaxPieces == 4
\* the number of create requests, one handler each
MaxHandlers == 2
\* the most backends the configuration lists for a model
MaxBackends == 3
\* the largest value drawn for the rotation index
MaxRand == 4
\* the most versions of one creation that are embedded, one job each
MaxVersions == 2
\* the most calls made on the store facade for one key
MaxOps == 2
\* the most seconds graceful_shutdown is configured to
MaxWaitSecs == 3
\* the most jobs that hold one sentinel at a time
MaxLive == 2
\* the most per-piece summaries of one summarization
MaxSummaries == 5
\* the most characters of a model output
MaxChars == 5
\* the most characters of a model output over the brackets, the quote, the
\* comma and a letter
MaxOutChars == 7
\* the most items of a content list
MaxItems == 4
\* the most rows of a model output
MaxRows == 3
\* the most units of one embedded document
MaxDocUnits == 2
\* the most unit groups of an embedding job
MaxGroups == 2
\* the most units of a group
MaxUnits == 2
\* the number of clock advances a behaviour may take
MaxTicks == 2
\* pieces of a message handed to one message-translation job
MtPieces == 2
\* the clock advances in steps of half a freshness window
TickMs == 1800000

(***************************************************************************)
(* Program constants.                                                      *)
(***************************************************************************)
\* permits of a job's semaphore
PARALLEL_WORKS == 3
\* the freshness window of create: 3600 * 1000 ms
FreshMs == 3600000
\* the limit of a vector search
SearchLimit == 3
\* the expiry create gives the message-translation key: 600 * 1000 ms
MtTtlMs == 600000

Models == {"gpt-3.5", "gpt-4"}

VARIABLES
    \* ---- the clock (unix_ms) ----
    now,
    \* ---- a background job (translate or summarize): its locals ----
    pieces,         \* content.len(): the number of units
    wpc,            \* per unit i: the position of the worker task spawned for it
    permits,        \* semaphore: the available permits
    closed,         \* semaphore: closed
    chan,           \* mpsc channel: the messages sent and not yet received
    rx,             \* TRUE while the receiver is alive
    jpc,            \* the position of the job (the collector)
    total_tokens,
    progress,
    res_list,
    output,         \* summarize: the summary body
    longs,          \* summarize: the units of more than 100 tokens
    plog,           \* history: the progress values the job has handed to upsert_fields
    reordered,      \* history: a result reached the collector out of index order
    \* ---- the artifact rows ----
    trRow,          \* the translating row of the key
    sumRow,         \* the summarizing row of the key
    \* ---- the create handlers: one request each ----
    hpc,            \* the position of handler h
    hreq,           \* its request
    hnow,           \* its local now
    hdoc,           \* its local doc: what get_one read
    hwrote,         \* history: the row as its upsert_fields left it
    hspawned,       \* history: it called tokio::spawn
    hprior,         \* history: the handlers that had returned when it began
    \* ---- the message-translation key of the cache ----
    mtKey,          \* the value and the expiry of MT:{id}:{lang}:{version}
    mtLife,         \* history: how many times the key came into existence
    hlife,          \* history: the life of the key handler h started, or 0
    mtBorn,         \* history: when the key last came into existence
    mtOut,          \* the update_data calls of the job of h and what the last returned
    mtEnd,          \* the job handler h spawned has returned
    \* ---- one operation of the LLM client ----
    aipc,           \* the position of the operation
    aiop,           \* translate, summarize, keywords or embedding
    aiBackends,     \* the length of the list get_params filters for the model
    rand_index,     \* the rotation index
    aiReqs,         \* history: the backend and the outcome of each request
    aiResult,       \* the status the operation returns, 200 for Ok
    \* ---- the embedding job ----
    epc,            \* the position of the job
    einput,         \* the size of each unit group
    eg,             \* the group at hand
    eu,             \* the unit at hand
    embRows,        \* the uuids of the rows of the embedding table
    embPoints,      \* the uuids of the points of the private collection
    eversion,       \* the version the job at hand was created for
    eoverwrote,     \* history: a save or an upsert met its own uuid
    \* ---- search and publish over the two vector collections ----
    qdPub,          \* the uuids of the points of the public collection
    sreq,           \* the last search request
    shits,          \* the scored points the vector store returned for it
    sres,           \* the list the search returned
    sstatus,        \* its status: 0 before any search, 200, or an error
    sseen,          \* history: the two collections as the search met them
    \* ---- TESegmenter::segment over one content list ----
    segpc,          \* the position of the loop
    segContent,     \* self: the content list
    segI,           \* the index of the item at hand
    segUnit,        \* unit: the unit that is being filled
    segList,        \* list: the units closed so far
    \* ---- TEUnit::replace_texts over one unit ----
    rtpc,           \* the position of the call
    rtContent,      \* self.content
    rtInput,        \* input: the lists handed to replace_texts
    rtK,            \* how many entries of input the iterator has yielded
    rtO,            \* o: the order of the entry at hand
    rtV,            \* v: the texts of the entry at hand
    rtI,            \* i: the index of the loop
    rtRes,          \* res: the content built so far
    rtAt,           \* history: the position each row so far was attached to
    \* ---- the JSON repair of one model output ----
    jspc,           \* the position: "start", "repaired" or "translated"
    jsInput,        \* the characters of the model output
    jsFix,          \* what fix_me returned for the output
    jsContent,      \* translate: the parsed content, or the failure
    jsFixed,        \* translate: the json_fixed entry of the request log
    jsShape,        \* translate: the lengths of the rows of input
    jsRet,          \* translate: what it returned, "ok" or "500"
    \* ---- shutdown_signal and the two sentinels of AppState ----
    sdpc,           \* the position of shutdown_signal
    wait_secs,      \* cfg.server.graceful_shutdown
    secs,           \* secs: the countdown
    sdWaits,        \* history: the one-second sleeps that have ended
    trCount,        \* Arc::strong_count(&app.translating)
    embCount,       \* Arc::strong_count(&app.embedding)
    trLive,         \* the tasks of translate spawned and not yet ended
    embLive,        \* the tasks of embedding spawned and not yet ended
    translatings,   \* the count of app.translating as the poll read it
    embeddings,     \* the count of app.embedding as the poll read it
    \* ---- one key of table translating behind its store facade ----
    stCells,        \* the cells the table holds for the key: column -> value
    stDoc,          \* the struct the last get_one filled
    stLast,         \* the last call: its request, its status, what it met
    stQueries,      \* history: the queries handed to the database
    stOps,          \* history: the calls made
    \* ---- the trimming of the per-piece summaries in summarize ----
    tmpc,           \* the position: "trim" or "joined"
    tmCount,        \* the number of per-piece summaries collected
    tmList,         \* res_list: the pieces left, by their first index
    tmTokens        \* tokens_list: the tokens of the pieces left

jobVars == <<pieces, wpc, permits, closed, chan, rx, jpc, total_tokens, progress,
             res_list, output, longs, plog, reordered>>
handlerVars == <<hpc, hreq, hnow, hdoc, hwrote, hspawned, hprior>>
mtVars == <<mtKey, mtLife, hlife, mtBorn, mtOut, mtEnd>>
aiVars == <<aipc, aiop, aiBackends, rand_index, aiReqs, aiResult>>
embVars == <<epc, einput, eg, eu, embRows, embPoints, eversion, eoverwrote>>
srchVars == <<qdPub, sreq, shits, sres, sstatus, sseen>>
segVars == <<segpc, segContent, segI, segUnit, segList>>
rtVars == <<rtpc, rtContent, rtInput, rtK, rtO, rtV, rtI, rtRes, rtAt>>
jsVars == <<jspc, jsInput, jsFix, jsContent, jsFixed, jsShape, jsRet>>
sdVars == <<sdpc, wait_secs, secs, sdWaits, trCount, embCount, trLive, embLive,
           translatings, embeddings>>
stVars == <<stCells, stDoc, stLast, stQueries, stOps>>
tmVars == <<tmpc, tmCount, tmList, tmTokens>>
vars == <<now, jobVars, trRow, sumRow, handlerVars, mtVars, aiVars, embVars, srchVars,
          segVars, rtVars, jsVars, sdVars, stVars, tmVars>>

\* what the actions of a job leave alone besides the rows
outsideJob == <<now, handlerVars, mtVars, aiVars, embVars, srchVars, segVars, rtVars, jsVars,
    sdVars, stVars, tmVars>>
\* what the create handlers of the two tables leave alone besides the rows
outsideCreate == <<jobVars, mtVars, aiVars, embVars, srchVars, segVars, rtVars, jsVars,
    sdVars, stVars, tmVars>>

(***************************************************************************)
(* The clock.                                                              *)
(***************************************************************************)
Tick ==
    /\ now < MaxTicks * TickMs
    /\ now' = now + TickMs

(***************************************************************************)
(* The create handlers.                                                    *)
(***************************************************************************)
Handlers == 1 .. MaxHandlers

\* the positions of a handler that has returned
Returned == {"rejected", "exists", "lost", "error", "done"}

(***************************************************************************)
(* The translating row and its store facade (db/model_translating.rs).     *)
(***************************************************************************)
\* a key with no row: with_pk(..) and Default::default()
TrNoRow ==
    [exists |-> FALSE, model |-> "", progress |-> 0, updated_at |-> 0,
     tokens |-> 0, content |-> <<>>, error |-> ""]

TrValidFields == {"model", "progress", "updated_at", "tokens", "content", "error"}

\* upsert_fields rejects the whole map when it names a column outside the
\* whitelist
TrUpsertOk(cols) == DOMAIN cols \subseteq TrValidFields

\* upsert_fields: UPDATE .. SET the given columns WHERE the key (creating the
\* row when there is none)
TrUpsertFields(row, cols) ==
    IF ~TrUpsertOk(cols) THEN row
    ELSE [k \in DOMAIN row |->
            IF k = "exists" THEN TRUE
            ELSE IF k \in DOMAIN cols THEN cols[k] ELSE row[k]]

\* cbor_to_vec of a Content list: the bytes are not the list
Cbor(list) == <<"cbor", list>>

(***************************************************************************)
(* The summarizing row and its store facade (db/model_summarizing.rs).     *)
(***************************************************************************)
SumNoRow ==
    [exists |-> FALSE, model |-> "", progress |-> 0, updated_at |-> 0,
     tokens |-> 0, summary |-> <<>>, error |-> ""]

\* Self::fields(): the columns of struct Summarizing
SumFields == {"gid", "cid", "language", "version", "model", "tokens", "summary", "error"}

SumValidFields == {"model", "tokens", "summary", "error"}

\* select_fields: Err(400) when a requested column is not in Self::fields()
SumSelectFieldsOk(fields) == fields \subseteq SumFields

\* a facade that takes every column
SumUpsertAny(cols) == TRUE

\* upsert_fields rejects the whole map when it names a column outside
\* valid_fields
SumUpsertOk(cols) == DOMAIN cols \subseteq SumValidFields

\* upsert_fields: UPDATE .. SET the given columns WHERE the key
SumUpsertFields(row, cols) ==
    IF ~SumUpsertOk(cols) THEN row
    ELSE [k \in DOMAIN row |->
            IF k = "exists" THEN TRUE
            ELSE IF k \in DOMAIN cols THEN cols[k] ELSE row[k]]

\* no request has been made
NoHandlers ==
    /\ hpc = [h \in Handlers |-> "idle"]
    /\ hreq = [h \in Handlers |-> [model |-> "", valid |-> FALSE, decodes |-> FALSE,
                                     had_row |-> FALSE]]
    /\ hnow = [h \in Handlers |-> 0]
    /\ hdoc = [h \in Handlers |-> TrNoRow]
    /\ hwrote = [h \in Handlers |-> TrNoRow]
    /\ hspawned = [h \in Handlers |-> FALSE]
    /\ hprior = [h \in Handlers |-> {}]

\* the key is absent from the cache
MtNoKey == [present |-> FALSE, value |-> <<>>, expires_at |-> 0]

\* no message-translation request has been made
NoMessageKey ==
    /\ mtKey = MtNoKey
    /\ mtLife = 0
    /\ hlife = [h \in Handlers |-> 0]
    /\ mtBorn = 0
    /\ mtOut = [h \in Handlers |-> [n |-> 0, last |-> "none"]]
    /\ mtEnd = [h \in Handlers |-> FALSE]

\* no operation of the LLM client is under way
NoAICall ==
    /\ aipc = "idle"
    /\ aiop = ""
    /\ aiBackends = 0
    /\ rand_index = 0
    /\ aiReqs = <<>>
    /\ aiResult = 0

\* the request of a search: "" stands for an omitted field
NoRequest == [short |-> FALSE, public |-> "", gid |-> "", language |-> "", cid |-> ""]

\* nothing is published and no search has been made
NoSearch ==
    /\ qdPub = {}
    /\ sreq = NoRequest
    /\ shits = <<>>
    /\ sres = <<>>
    /\ sstatus = 0
    /\ sseen = [private |-> {}, public |-> {}, searched |-> {}]

\* a unit with nothing in it: TEUnit { tokens: 0, content: Vec::new() }
EmptyUnit == [tokens |-> 0, content |-> <<>>]

\* no content is being segmented
NoSegment ==
    /\ segpc = "none"
    /\ segContent = <<>>
    /\ segI = 0
    /\ segUnit = EmptyUnit
    /\ segList = <<>>

\* no summaries are being trimmed
NoTrim ==
    /\ tmpc = "none"
    /\ tmCount = 0
    /\ tmList = <<>>
    /\ tmTokens = <<>>

\* the key has no cells and no call was made
NoStore ==
    /\ stCells = <<>>
    /\ stDoc = <<>>
    /\ stLast = [op |-> "none"]
    /\ stQueries = 0
    /\ stOps = 0

\* the server runs, no signal has come and no job holds a sentinel
NoShutdown ==
    /\ sdpc = "none"
    /\ wait_secs = 0
    /\ secs = 0
    /\ sdWaits = 0
    /\ trCount = 1
    /\ embCount = 1
    /\ trLive = 0
    /\ embLive = 0
    /\ translatings = 0
    /\ embeddings = 0

\* no model output is being parsed
NoRepair ==
    /\ jspc = "none"
    /\ jsInput = <<>>
    /\ jsFix = [err |-> "", res |-> <<>>]
    /\ jsContent = [ok |-> FALSE, list |-> <<>>]
    /\ jsFixed = "unset"
    /\ jsShape = <<>>
    /\ jsRet = "unset"

\* no texts are being replaced
NoReplace ==
    /\ rtpc = "none"
    /\ rtContent = <<>>
    /\ rtInput = <<>>
    /\ rtK = 0
    /\ rtO = 0
    /\ rtV = <<>>
    /\ rtI = 0
    /\ rtRes = <<>>
    /\ rtAt = <<>>

\* no embedding job runs
NoEmbedding ==
    /\ epc = "none"
    /\ einput = <<>>
    /\ eg = 0
    /\ eu = 0
    /\ embRows = {}
    /\ embPoints = {}
    /\ eversion = 0
    /\ eoverwrote = FALSE

(***************************************************************************)
(* The parts the translate and summarize jobs share: the semaphore, the    *)
(* worker tasks and the channel.                                           *)
(***************************************************************************)
\* the units a worker task was spawned for
Units == DOMAIN wpc

\* the tokens one LLM call may report
TokenChoices == {1, 2}

\* the locals of a job of n units once its workers are spawned
JobStart(n) ==
    /\ pieces = n
    /\ wpc = [i \in 0 .. (n - 1) |-> "wait"]
    /\ permits = PARALLEL_WORKS
    /\ closed = FALSE
    /\ chan = <<>>
    /\ rx = TRUE
    /\ total_tokens = 0
    /\ progress = 0
    /\ res_list = [i \in 0 .. (n - 1) |-> <<>>]
    /\ plog = <<>>
    /\ reordered = FALSE

\* the locals of a job that has no workers
JobNoWorkers(n) ==
    /\ pieces = n
    /\ wpc = <<>>
    /\ permits = PARALLEL_WORKS
    /\ closed = FALSE
    /\ chan = <<>>
    /\ rx = FALSE
    /\ total_tokens = 0
    /\ progress = 0
    /\ res_list = <<>>
    /\ plog = <<>>
    /\ reordered = FALSE

\* a closed semaphore still hands out permits
SemaphoreOpenAlways(isClosed) == TRUE

\* Semaphore::acquire fails once the semaphore is closed
SemaphoreOpen(isClosed) == ~isClosed

\* a permit is handed out whether or not one is left
PermitFreeAlways(free) == TRUE

\* Semaphore::acquire waits while no permit is left
PermitFree(free) == free > 0

\* sem.acquire() returns Ok(permit): the worker goes on to its LLM call
WorkerAcquire(i) ==
    /\ wpc[i] = "wait"
    /\ SemaphoreOpen(closed)
    /\ PermitFree(permits)
    /\ permits' = permits - 1
    /\ wpc' = [wpc EXCEPT ![i] = "call"]
    /\ UNCHANGED <<pieces, closed, chan, rx, jpc, total_tokens, progress, res_list,
                   output, longs, plog, reordered>>

\* sem.acquire() returns Err (the semaphore is closed): the task ends
WorkerAbort(i) ==
    /\ wpc[i] = "wait"
    /\ closed
    /\ wpc' = [wpc EXCEPT ![i] = "aborted"]
    /\ UNCHANGED <<pieces, permits, closed, chan, rx, jpc, total_tokens, progress,
                   res_list, output, longs, plog, reordered>>

\* tx.send(msg): queued while the receiver lives, lost otherwise
Sent(msg) == IF rx THEN Append(chan, msg) ELSE chan

\* the call returned Ok: drop(permit), send (i, Ok((used_tokens, content)));
\* the send returns Err, which the task ignores, once the receiver is dropped
WorkerOk(i, t, content) ==
    /\ wpc[i] = "call"
    /\ chan' = Sent([i |-> i, ok |-> TRUE, tokens |-> t, content |-> content])
    /\ permits' = permits + 1
    /\ wpc' = [wpc EXCEPT ![i] = IF rx THEN "done" ELSE "unsent"]
    /\ UNCHANGED <<pieces, closed, rx, jpc, total_tokens, progress, res_list,
                   output, longs, plog, reordered>>

\* the call returned Err: sem.close(), send (i, Err(err)); the permit is
\* dropped when the block ends
WorkerErr(i) ==
    /\ wpc[i] = "call"
    /\ closed' = TRUE
    /\ chan' = Sent([i |-> i, ok |-> FALSE, tokens |-> 0, content |-> <<>>])
    /\ permits' = permits + 1
    /\ wpc' = [wpc EXCEPT ![i] = "failed"]
    /\ UNCHANGED <<pieces, rx, jpc, total_tokens, progress, res_list, output, longs,
                   plog, reordered>>

\* every clone of tx is dropped once its task has ended
AllSendersDropped == \A i \in Units : wpc[i] \in {"done", "unsent", "failed", "aborted"}

\* res_list[i] = content, had the result been stored at its arrival position
StoreResultByArrival(list, i, done, content) == [list EXCEPT ![done - 1] = content]

\* res_list[i] = content
StoreResult(list, i, done, content) == [list EXCEPT ![i] = content]

(***************************************************************************)
(* The translate job (api/translating.rs, translate).                      *)
(***************************************************************************)
\* what unit i's worker sends on success: unit.replace_texts(&content), the
\* items of the unit with the translated texts
UnitLen(i) == 1 + (i % 2)

Translated(i) == [k \in 1 .. UnitLen(i) |-> <<i, k>>]

RECURSIVE ConcatUpTo(_, _)
\* content_list.extend(content) over the slots 0 .. n-1
ConcatUpTo(list, n) ==
    IF n = 0 THEN <<>> ELSE ConcatUpTo(list, n - 1) \o list[n - 1]

\* progress * 100 / pieces + 1, as the summarize job computes it
ProgressPercentPlusOne(done, n) == (done * 100) \div n + 1

\* (progress * 100 / pieces) as i8
ProgressPercent(done, n) == (done * 100) \div n

TrWorkerOk(i) ==
    \E t \in TokenChoices : WorkerOk(i, t, Translated(i))

\* the loop goes on to the next result after an Err
ReturnsOnErrNever(ok) == FALSE

\* if let Err(err) = res { .. return; }
ReturnsOnErr(ok) == ~ok

\* rx.recv() yields an Err: the row gets {updated_at, error}; the job returns,
\* which drops rx and what is queued in the channel
TrCollectErr ==
    /\ jpc = "collect"
    /\ chan # <<>>
    /\ ~Head(chan).ok
    /\ trRow' = TrUpsertFields(trRow, [updated_at |-> now, error |-> "LLM error"])
    /\ IF ReturnsOnErr(Head(chan).ok)
       THEN jpc' = "failed" /\ rx' = FALSE /\ chan' = <<>>
       ELSE jpc' = jpc /\ rx' = rx /\ chan' = Tail(chan)
    /\ UNCHANGED <<pieces, wpc, permits, closed, total_tokens, progress, res_list,
                   output, longs, plog, reordered>>

\* rx.recv() yields an Ok: the slot is filled; the row gets
\* {updated_at, progress, tokens}
TrCollectOk ==
    /\ jpc = "collect"
    /\ chan # <<>>
    /\ Head(chan).ok
    /\ LET m == Head(chan)
           done == progress + 1
           cols == [updated_at |-> now,
                    progress |-> ProgressPercent(done, pieces),
                    tokens |-> total_tokens + m.tokens]
       IN /\ total_tokens' = total_tokens + m.tokens
          /\ progress' = done
          /\ res_list' = StoreResult(res_list, m.i, done, m.content)
          /\ trRow' = TrUpsertFields(trRow, cols)
          /\ plog' = Append(plog, [progress |-> cols.progress,
                                   persisted |-> TrUpsertOk(cols)])
          /\ reordered' = (reordered \/ m.i # progress)
    /\ chan' = Tail(chan)
    /\ UNCHANGED <<pieces, wpc, permits, closed, rx, jpc, output, longs>>

\* rx.recv() yields None; the slots are concatenated and encoded; the row
\* gets {updated_at, progress = 100, tokens, content, error = ""}
TrFinish ==
    /\ jpc = "collect"
    /\ chan = <<>>
    /\ AllSendersDropped
    /\ LET cols == [updated_at |-> now, progress |-> 100, tokens |-> total_tokens,
                    content |-> Cbor(ConcatUpTo(res_list, pieces)), error |-> ""]
       IN /\ trRow' = TrUpsertFields(trRow, cols)
          /\ plog' = Append(plog, [progress |-> 100, persisted |-> TrUpsertOk(cols)])
    /\ jpc' = "done"
    /\ rx' = FALSE
    /\ UNCHANGED <<pieces, wpc, permits, closed, chan, total_tokens, progress,
                   res_list, output, longs, reordered>>

\* rx.recv() yields None and cbor_to_vec fails: the row gets
\* {updated_at, error}; the job returns
TrEncodeErr ==
    /\ jpc = "collect"
    /\ chan = <<>>
    /\ AllSendersDropped
    /\ trRow' = TrUpsertFields(trRow, [updated_at |-> now, error |-> "cbor error"])
    /\ jpc' = "encode_failed"
    /\ rx' = FALSE
    /\ UNCHANGED <<pieces, wpc, permits, closed, chan, total_tokens, progress,
                   res_list, output, longs, plog, reordered>>

\* the columns create writes before it spawns the job
TrResetCols(model, at) ==
    [model |-> model, updated_at |-> at, progress |-> 0, tokens |-> 0,
     content |-> <<>>, error |-> ""]

\* translate() is entered, some time after create reset the row; a job of no
\* unit panics in mpsc::channel(0)
TranslateInit ==
    /\ now = TickMs
    /\ \E n \in 0 .. MaxPieces :
          IF n = 0 THEN JobNoWorkers(0) /\ jpc = "panicked"
                   ELSE JobStart(n) /\ jpc = "collect"
    /\ output = <<>>
    /\ longs = {}
    /\ \E m \in Models : trRow = TrUpsertFields(TrNoRow, TrResetCols(m, 0))
    /\ sumRow = SumNoRow
    /\ NoHandlers
    /\ NoMessageKey
    /\ NoAICall
    /\ NoSearch
    /\ NoSegment
    /\ NoRepair
    /\ NoShutdown
    /\ NoStore
    /\ NoTrim
    /\ NoReplace
    /\ NoEmbedding

TranslateNext ==
    \/ \E i \in Units : WorkerAcquire(i) /\ UNCHANGED <<outsideJob, trRow, sumRow>>
    \/ \E i \in Units : WorkerAbort(i) /\ UNCHANGED <<outsideJob, trRow, sumRow>>
    \/ \E i \in Units : TrWorkerOk(i) /\ UNCHANGED <<outsideJob, trRow, sumRow>>
    \/ \E i \in Units : WorkerErr(i) /\ UNCHANGED <<outsideJob, trRow, sumRow>>
    \/ TrCollectErr /\ UNCHANGED <<outsideJob, sumRow>>
    \/ TrCollectOk /\ UNCHANGED <<outsideJob, sumRow>>
    \/ TrFinish /\ UNCHANGED <<outsideJob, sumRow>>
    \/ TrEncodeErr /\ UNCHANGED <<outsideJob, sumRow>>

SpecTranslate == TranslateInit /\ [][TranslateNext]_vars

\* the steps of the job's own task: the loop over rx.recv() and what
\* follows it
TrCollectorSteps ==
    (TrCollectErr \/ TrCollectOk \/ TrFinish \/ TrEncodeErr) /\ UNCHANGED <<outsideJob, sumRow>>

\* the steps of the worker tasks
TrWorkerSteps ==
    \E i \in Units :
        (WorkerAcquire(i) \/ WorkerAbort(i) \/ TrWorkerOk(i) \/ WorkerErr(i))
            /\ UNCHANGED <<outsideJob, trRow, sumRow>>

\* the runtime schedules the job's task and its workers, and every LLM and
\* store call returns
SpecTranslateFair ==
    SpecTranslate /\ WF_vars(TrCollectorSteps) /\ WF_vars(TrWorkerSteps)

(***************************************************************************)
(* Claims about the translate job.                                         *)
(***************************************************************************)
\* the pairs <<unit, item>> in the order of the input
Before(a, b) == a[1] < b[1] \/ (a[1] = b[1] /\ a[2] < b[2])

\* C1: when the job has made its final write, every unit's worker has
\* returned successfully and the row's content decodes to the items of the
\* units 0..N-1 in unit index order, each exactly once, whatever the order
\* in which the results arrived.
FinalContentInIndexOrder ==
    jpc = "done" =>
        /\ \A i \in Units : wpc[i] = "done"
        /\ trRow.progress = 100 /\ trRow.error = ""
        /\ trRow.content[1] = "cbor"
        /\ LET list == trRow.content[2]
           IN /\ \A p, q \in DOMAIN list : p < q => Before(list[p], list[q])
              /\ {list[p] : p \in DOMAIN list} =
                    UNION {{<<i, k>> : k \in 1 .. UnitLen(i)} : i \in Units}

\* C1 witness: a job of three units or more made its final write after
\* results arrived out of index order
FinalAfterReordering == jpc = "done" /\ reordered /\ pieces >= 3

\* C2: in a run that ends in success every progress value is persisted, the
\* k-th incremental value is floor(k * 100 / N), the values never decrease
\* and the last one is 100.
TranslateProgressMonotone ==
    jpc = "done" =>
        /\ Len(plog) = pieces + 1
        /\ \A k \in 1 .. Len(plog) : plog[k].persisted
        /\ \A k \in 1 .. pieces : plog[k].progress = (k * 100) \div pieces
        /\ \A j, k \in 1 .. Len(plog) : j < k => plog[j].progress <= plog[k].progress
        /\ plog[Len(plog)].progress = 100
        /\ trRow.progress = 100

\* C2 witness: a successful run of three units (33, 66, 100, 100)
TranslateSucceededThree == jpc = "done" /\ pieces = 3 /\ plog[1].progress = 33

(***************************************************************************)
(* The summarize job (api/summarizing.rs, summarize).                      *)
(***************************************************************************)
\* (progress * 100 / pieces + 1) as i8
SumProgressPercent(done, n) == (done * 100) \div n + 1

\* a piece of more than 100 tokens is summarized by the LLM, a shorter one
\* passes through with no tokens used
SumWorkerOk(i) ==
    IF i \in longs
    THEN \E t \in TokenChoices : WorkerOk(i, t, <<"summary", i>>)
    ELSE WorkerOk(i, 0, <<"text", i>>)

\* app.ai.summarize fails for a piece of more than 100 tokens
SumWorkerErr(i) == i \in longs /\ WorkerErr(i)

\* rx.recv() yields an Err: upsert_fields is called with {updated_at, error};
\* the job returns
SumCollectErr ==
    /\ jpc = "collect"
    /\ chan # <<>>
    /\ ~Head(chan).ok
    /\ sumRow' = SumUpsertFields(sumRow, [updated_at |-> now, error |-> "LLM error"])
    /\ jpc' = "failed"
    /\ rx' = FALSE
    /\ chan' = <<>>
    /\ UNCHANGED <<pieces, wpc, permits, closed, total_tokens, progress, res_list,
                   output, longs, plog, reordered>>

\* rx.recv() yields an Ok: the slot is filled; upsert_fields is called with
\* {updated_at, progress, tokens}
SumCollectOk ==
    /\ jpc = "collect"
    /\ chan # <<>>
    /\ Head(chan).ok
    /\ LET m == Head(chan)
           done == progress + 1
           cols == [updated_at |-> now,
                    progress |-> SumProgressPercent(done, pieces),
                    tokens |-> total_tokens + m.tokens]
       IN /\ total_tokens' = total_tokens + m.tokens
          /\ progress' = done
          /\ res_list' = StoreResult(res_list, m.i, done, m.content)
          /\ sumRow' = SumUpsertFields(sumRow, cols)
          /\ plog' = Append(plog, [progress |-> cols.progress,
                                   persisted |-> SumUpsertOk(cols)])
          /\ reordered' = (reordered \/ m.i # progress)
    /\ chan' = Tail(chan)
    /\ UNCHANGED <<pieces, wpc, permits, closed, rx, jpc, output, longs>>

\* rx.recv() yields None: a single summary is the output, several are
\* summarized once more
SumCollected ==
    /\ jpc = "collect"
    /\ chan = <<>>
    /\ AllSendersDropped
    /\ rx' = FALSE
    /\ IF pieces = 1
       THEN output' = res_list[0] /\ jpc' = "keywords"
       ELSE output' = output /\ jpc' = "condense"
    /\ UNCHANGED <<pieces, wpc, permits, closed, chan, total_tokens, progress,
                   res_list, longs, plog, reordered>>

\* the second summarize call returns Ok: upsert_fields is called with
\* {updated_at, progress = 100, tokens}
SumCondenseOk ==
    /\ jpc = "condense"
    /\ \E t \in TokenChoices :
          LET cols == [updated_at |-> now, progress |-> 100,
                       tokens |-> total_tokens + t]
          IN /\ total_tokens' = total_tokens + t
             /\ sumRow' = SumUpsertFields(sumRow, cols)
             /\ plog' = Append(plog, [progress |-> 100, persisted |-> SumUpsertOk(cols)])
    /\ progress' = progress + 1
    /\ output' = <<"condensed">>
    /\ jpc' = "keywords"
    /\ UNCHANGED <<pieces, wpc, permits, closed, chan, rx, res_list, longs, reordered>>

\* the second summarize call returns Err: upsert_fields is called with
\* {updated_at, error}; the job returns
SumCondenseErr ==
    /\ jpc = "condense"
    /\ sumRow' = SumUpsertFields(sumRow, [updated_at |-> now, error |-> "LLM error"])
    /\ jpc' = "failed"
    /\ UNCHANGED <<pieces, wpc, permits, closed, chan, rx, total_tokens, progress,
                   res_list, output, longs, plog, reordered>>

\* app.ai.keywords returns Ok: the keyword line is put before the body
SumKeywordsOk ==
    /\ jpc = "keywords"
    /\ \E t \in TokenChoices : total_tokens' = total_tokens + t
    /\ output' = <<"keywords", output>>
    /\ jpc' = "save"
    /\ UNCHANGED <<pieces, wpc, permits, closed, chan, rx, progress, res_list, longs,
                   plog, reordered>>

\* app.ai.keywords returns Err: it is logged and the job goes on
SumKeywordsErr ==
    /\ jpc = "keywords"
    /\ jpc' = "save"
    /\ UNCHANGED <<pieces, wpc, permits, closed, chan, rx, total_tokens, progress,
                   res_list, output, longs, plog, reordered>>

\* upsert_fields is called with {updated_at, progress = 100, tokens, summary,
\* error = ""}
SumSave ==
    /\ jpc = "save"
    /\ LET cols == [updated_at |-> now, progress |-> 100, tokens |-> total_tokens,
                    summary |-> output, error |-> ""]
       IN /\ sumRow' = SumUpsertFields(sumRow, cols)
          /\ plog' = Append(plog, [progress |-> 100, persisted |-> SumUpsertOk(cols)])
    /\ jpc' = "done"
    /\ UNCHANGED <<pieces, wpc, permits, closed, chan, rx, total_tokens, progress,
                   res_list, output, longs, reordered>>

\* the columns create hands to upsert_fields before it spawns the job
SumResetCols(at) ==
    [model |-> "gpt-3.5", updated_at |-> at, progress |-> 0, tokens |-> 0,
     summary |-> <<>>, error |-> ""]

\* summarize() is entered with n pieces, those of L longer than 100 tokens:
\* no piece, return; one short piece, no worker; else the workers are spawned
SummarizeInit ==
    /\ now = TickMs
    /\ \E n \in 0 .. MaxPieces : \E L \in SUBSET (0 .. (n - 1)) :
          /\ longs = L
          /\ IF n = 0 THEN JobNoWorkers(0) /\ jpc = "returned" /\ output = <<>>
             ELSE IF n = 1 /\ L = {}
                  THEN JobNoWorkers(1) /\ jpc = "keywords" /\ output = <<"text", 0>>
                  ELSE JobStart(n) /\ jpc = "collect" /\ output = <<>>
    /\ sumRow = SumNoRow
    /\ trRow = TrNoRow
    /\ NoHandlers
    /\ NoMessageKey
    /\ NoAICall
    /\ NoSearch
    /\ NoSegment
    /\ NoRepair
    /\ NoShutdown
    /\ NoStore
    /\ NoTrim
    /\ NoReplace
    /\ NoEmbedding

SummarizeNext ==
    \/ \E i \in Units : WorkerAcquire(i) /\ UNCHANGED <<outsideJob, trRow, sumRow>>
    \/ \E i \in Units : WorkerAbort(i) /\ UNCHANGED <<outsideJob, trRow, sumRow>>
    \/ \E i \in Units : SumWorkerOk(i) /\ UNCHANGED <<outsideJob, trRow, sumRow>>
    \/ \E i \in Units : SumWorkerErr(i) /\ UNCHANGED <<outsideJob, trRow, sumRow>>
    \/ SumCollectErr /\ UNCHANGED <<outsideJob, trRow>>
    \/ SumCollectOk /\ UNCHANGED <<outsideJob, trRow>>
    \/ SumCollected /\ UNCHANGED <<outsideJob, trRow, sumRow>>
    \/ SumCondenseOk /\ UNCHANGED <<outsideJob, trRow>>
    \/ SumCondenseErr /\ UNCHANGED <<outsideJob, trRow>>
    \/ SumKeywordsOk /\ UNCHANGED <<outsideJob, trRow, sumRow>>
    \/ SumKeywordsErr /\ UNCHANGED <<outsideJob, trRow, sumRow>>
    \/ SumSave /\ UNCHANGED <<outsideJob, trRow>>

SpecSummarize == SummarizeInit /\ [][SummarizeNext]_vars

(***************************************************************************)
(* Claims about the summarize job.                                         *)
(***************************************************************************)
\* C3: in a summarize run that ends in success the progress values the job
\* writes to its row, in the order of the writes, never decrease, and the
\* last one is 100.
SummarizeProgressMonotone ==
    jpc = "done" =>
        /\ plog # <<>>
        /\ \A j, k \in 1 .. Len(plog) : j < k => plog[j].progress <= plog[k].progress
        /\ plog[Len(plog)].progress = 100

ErrorWriteKeepsProgress ==
    [][(jpc = "collect" /\ jpc' = "failed") =>
          /\ trRow'.progress = trRow.progress /\ sumRow'.progress = sumRow.progress
          /\ trRow'.tokens = trRow.tokens /\ sumRow'.tokens = sumRow.tokens
          /\ trRow'.content = trRow.content /\ sumRow'.summary = sumRow.summary
          /\ (trRow' # trRow \/ sumRow' # sumRow)
          /\ (trRow' # trRow => trRow'.error # "")
          /\ (sumRow' # sumRow => sumRow'.error # "")]_vars

(***************************************************************************)
(* create of /v1/translating (api/translating.rs, create).                 *)
(***************************************************************************)
\* no job runs
NoJob ==
    /\ JobNoWorkers(0)
    /\ jpc = "none"
    /\ output = <<>>
    /\ longs = {}

\* the request is validated; now = unix_ms()
CreateBegin(h, m, valid) ==
    /\ hpc[h] = "idle"
    /\ hreq' = [hreq EXCEPT ![h] = [model |-> m, valid |-> valid, decodes |-> valid,
                                    had_row |-> trRow.exists]]
    /\ hnow' = [hnow EXCEPT ![h] = now]
    /\ hprior' = [hprior EXCEPT ![h] = {g \in Handlers : hpc[g] \in Returned}]
    /\ hpc' = [hpc EXCEPT ![h] = IF valid THEN "read" ELSE "rejected"]
    /\ UNCHANGED <<hdoc, hwrote, hspawned>>

\* the freshness check that forgets to compare the model
TrIsFreshAnyModel(doc, model, at) ==
    /\ doc.exists
    /\ doc.error = ""
    /\ at - doc.updated_at < FreshMs

\* get_one(..).is_ok() && doc.model == model && doc.error.is_empty()
\*   && now - doc.updated_at < 3600 * 1000
TrIsFresh(doc, model, at) ==
    /\ doc.exists
    /\ doc.model = model
    /\ doc.error = ""
    /\ at - doc.updated_at < FreshMs

\* get_one(["model", "updated_at", "error"]) and the freshness check
TrCreateRead(h) ==
    /\ hpc[h] = "read"
    /\ hdoc' = [hdoc EXCEPT ![h] = trRow]
    /\ hpc' = [hpc EXCEPT ![h] =
                 IF TrIsFresh(trRow, hreq[h].model, hnow[h]) THEN "exists" ELSE "reset"]
    /\ UNCHANGED <<trRow, hreq, hnow, hwrote, hspawned, hprior>>

\* upsert_fields(reset columns)?: an error of the store ends the request
TrCreateReset(h) ==
    /\ hpc[h] = "reset"
    /\ \E stored \in BOOLEAN :
          IF stored
          THEN /\ trRow' = TrUpsertFields(trRow, TrResetCols(hreq[h].model, hnow[h]))
               /\ hwrote' = [hwrote EXCEPT ![h] = trRow']
               /\ hpc' = [hpc EXCEPT ![h] = "spawn"]
          ELSE /\ hpc' = [hpc EXCEPT ![h] = "error"]
               /\ UNCHANGED <<trRow, hwrote>>
    /\ UNCHANGED <<hreq, hnow, hdoc, hspawned, hprior>>

\* tokio::spawn(translate(..))
CreateSpawn(h) ==
    /\ hpc[h] = "spawn"
    /\ hspawned' = [hspawned EXCEPT ![h] = TRUE]
    /\ hpc' = [hpc EXCEPT ![h] = "done"]
    /\ UNCHANGED <<hreq, hnow, hdoc, hwrote, hprior>>

\* a row an earlier job of model m left: finished, or failed with an error
TrOldRow(m, failed) ==
    [exists |-> TRUE, model |-> m, progress |-> IF failed THEN 33 ELSE 100,
     updated_at |-> 0, tokens |-> 5,
     content |-> IF failed THEN <<>> ELSE Cbor(Translated(0)),
     error |-> IF failed THEN "LLM error" ELSE ""]

TrCreateInit ==
    /\ now = 0
    /\ NoJob
    /\ NoHandlers
    /\ NoMessageKey
    /\ NoAICall
    /\ NoSearch
    /\ NoSegment
    /\ NoRepair
    /\ NoShutdown
    /\ NoStore
    /\ NoTrim
    /\ NoReplace
    /\ NoEmbedding
    /\ trRow \in {TrNoRow} \cup {TrOldRow(m, f) : m \in Models, f \in BOOLEAN}
    /\ sumRow = SumNoRow

TrCreateNext ==
    \/ Tick /\ UNCHANGED <<outsideCreate, trRow, sumRow, handlerVars>>
    \/ \E h \in Handlers, m \in Models, valid \in BOOLEAN :
          CreateBegin(h, m, valid) /\ UNCHANGED <<now, outsideCreate, trRow, sumRow>>
    \/ \E h \in Handlers : TrCreateRead(h) /\ UNCHANGED <<now, outsideCreate, sumRow>>
    \/ \E h \in Handlers : TrCreateReset(h) /\ UNCHANGED <<now, outsideCreate, sumRow>>
    \/ \E h \in Handlers : CreateSpawn(h) /\ UNCHANGED <<now, outsideCreate, trRow, sumRow>>

SpecTrCreate == TrCreateInit /\ [][TrCreateNext]_vars

\* the handler is past its read of the row
PastRead(h) == hpc[h] \in {"exists", "reset", "spawn", "error", "done"}

\* C6: a create that read a row of the same model, with an empty error and
\* an updated_at less than one hour before its now, returns without a write
\* and without a spawn; any other create that spawns a job has first left the
\* row with its model, progress 0, tokens 0, empty content and empty error,
\* and spawns unless the store refuses the write.
TrCreateSkipsOnlyFresh ==
    \A h \in Handlers : PastRead(h) =>
        LET fresh == /\ hdoc[h].exists
                     /\ hdoc[h].model = hreq[h].model
                     /\ hdoc[h].error = ""
                     /\ hnow[h] - hdoc[h].updated_at < 3600000
        IN IF fresh
           THEN hpc[h] = "exists" /\ ~hwrote[h].exists /\ ~hspawned[h]
           ELSE /\ hpc[h] # "exists"
                /\ (hspawned[h] \/ hpc[h] = "spawn") =>
                      /\ hwrote[h].exists
                      /\ hwrote[h].model = hreq[h].model
                      /\ hwrote[h].progress = 0 /\ hwrote[h].tokens = 0
                      /\ hwrote[h].content = <<>> /\ hwrote[h].error = ""
                      /\ hwrote[h].updated_at = hnow[h]
                /\ hpc[h] = "done" => hspawned[h]
                /\ hwrote[h].exists => hpc[h] \in {"spawn", "done"}

\* C6 witness: one create has reset a row of another model and spawned, and
\* a later create of the same model found the row fresh and skipped
TrCreateSkippedAfterSpawn ==
    \E g, h \in Handlers :
        /\ hpc[g] = "done" /\ hspawned[g] /\ hdoc[g].exists /\ g \in hprior[h]
        /\ hpc[h] = "exists" /\ hdoc[h] = hwrote[g]

(***************************************************************************)
(* create of /v1/summarizing (api/summarizing.rs, create).                 *)
(***************************************************************************)
\* language != Und is all the handler checks before it reads the row; the
\* content is decoded only after the reset
SumCreateBegin(h, valid, decodes) ==
    /\ hpc[h] = "idle"
    /\ hreq' = [hreq EXCEPT ![h] = [model |-> "gpt-3.5", valid |-> valid,
                                    decodes |-> decodes, had_row |-> sumRow.exists]]
    /\ hnow' = [hnow EXCEPT ![h] = now]
    /\ hprior' = [hprior EXCEPT ![h] = {g \in Handlers : hpc[g] \in Returned}]
    /\ hpc' = [hpc EXCEPT ![h] = IF valid THEN "read" ELSE "rejected"]
    /\ UNCHANGED <<hdoc, hwrote, hspawned>>

\* get_one: select_fields(fields)? first, then the SELECT
SumGetOneOk(row, fields) == SumSelectFieldsOk(fields) /\ row.exists

\* get_one(..).is_ok() && doc.error.is_empty() && now - doc.updated_at < 3600 * 1000
SumIsFresh(got, doc, at) ==
    /\ got
    /\ doc.error = ""
    /\ at - doc.updated_at < FreshMs

\* get_one(["model", "updated_at", "error"]) and the freshness check
SumCreateRead(h) ==
    LET got == SumGetOneOk(sumRow, {"model", "updated_at", "error"})
        doc == IF got THEN sumRow ELSE SumNoRow
    IN /\ hpc[h] = "read"
       /\ hdoc' = [hdoc EXCEPT ![h] = doc]
       /\ hpc' = [hpc EXCEPT ![h] = IF SumIsFresh(got, doc, hnow[h]) THEN "exists" ELSE "reset"]
       /\ UNCHANGED <<sumRow, hreq, hnow, hwrote, hspawned, hprior>>

\* upsert_fields(reset columns)?, then cbor_from_slice(content)?, then
\* tokio::spawn(summarize(..))
SumCreateReset(h) ==
    /\ hpc[h] = "reset"
    /\ \E stored \in BOOLEAN :
          IF SumUpsertOk(SumResetCols(hnow[h])) /\ stored
          THEN /\ sumRow' = SumUpsertFields(sumRow, SumResetCols(hnow[h]))
               /\ hwrote' = [hwrote EXCEPT ![h] = sumRow']
               /\ hspawned' = [hspawned EXCEPT ![h] = hreq[h].decodes]
               /\ hpc' = [hpc EXCEPT ![h] = IF hreq[h].decodes THEN "done" ELSE "error"]
          ELSE /\ hpc' = [hpc EXCEPT ![h] = "error"]
               /\ UNCHANGED <<sumRow, hwrote, hspawned>>
    /\ UNCHANGED <<hreq, hnow, hdoc, hprior>>

SumCreateInit ==
    /\ now = 0
    /\ NoJob
    /\ NoHandlers
    /\ NoMessageKey
    /\ NoAICall
    /\ NoSearch
    /\ NoSegment
    /\ NoRepair
    /\ NoShutdown
    /\ NoStore
    /\ NoTrim
    /\ NoReplace
    /\ NoEmbedding
    /\ trRow = TrNoRow
    /\ sumRow = SumNoRow

SumCreateNext ==
    \/ Tick /\ UNCHANGED <<outsideCreate, trRow, sumRow, handlerVars>>
    \/ \E h \in Handlers, valid \in BOOLEAN, decodes \in BOOLEAN :
          SumCreateBegin(h, valid, decodes) /\ UNCHANGED <<now, outsideCreate, trRow, sumRow>>
    \/ \E h \in Handlers : SumCreateRead(h) /\ UNCHANGED <<now, outsideCreate, trRow>>
    \/ \E h \in Handlers : SumCreateReset(h) /\ UNCHANGED <<now, outsideCreate, trRow>>

SpecSumCreate == SumCreateInit /\ [][SumCreateNext]_vars

\* C7: of two well-formed creates of one key, the second begun after the
\* first returned and less than one hour after it, on a key that had no row,
\* the first has spawned a job and the second has returned at its freshness
\* check without a spawn.
SumCreateSecondSkips ==
    \A g, h \in Handlers :
        ( /\ g \in hprior[h] /\ hprior[g] = {}
          /\ hpc[h] \in Returned
          /\ hreq[g].valid /\ hreq[g].decodes /\ ~hreq[g].had_row
          /\ hreq[h].valid /\ hreq[h].decodes
          /\ hnow[h] - hnow[g] < 3600000 )
        => hspawned[g] /\ ~hspawned[h] /\ hpc[h] = "exists"

(***************************************************************************)
(* create of /v1/message_translating (api/message_translating.rs, create)  *)
(* over the cache (db/redis.rs).                                           *)
(***************************************************************************)
outsideMT == <<jobVars, trRow, sumRow, aiVars, embVars, srchVars, segVars, rtVars, jsVars,
    sdVars, stVars, tmVars>>

\* the key is in the cache at time at: set and not yet expired
MtLive(key, at) == key.present /\ at < key.expires_at

\* the placeholder create stores: MessageTranslatingOutput { model, ..Default }
MtPlaceholder(m) ==
    [model |-> m, progress |-> 0, tokens |-> 0, content |-> <<>>, error |-> ""]

\* SET key value PX ttl_ms without the NX condition
RedisNewDataOverwrite(key, value, ttl_ms, at) ==
    [set |-> TRUE,
     key |-> [present |-> TRUE, value |-> value, expires_at |-> at + ttl_ms]]

\* new_data: SET key value NX PX ttl_ms; Ok(true) iff the key was set
RedisNewData(key, value, ttl_ms, at) ==
    IF MtLive(key, at)
    THEN [set |-> FALSE, key |-> key]
    ELSE [set |-> TRUE,
          key |-> [present |-> TRUE, value |-> value, expires_at |-> at + ttl_ms]]

\* the request is validated and its content decoded
MtCreateBegin(h, m, valid) ==
    /\ hpc[h] = "idle"
    /\ hreq' = [hreq EXCEPT ![h] = [model |-> m, valid |-> valid, decodes |-> valid,
                                    had_row |-> MtLive(mtKey, now)]]
    /\ hnow' = [hnow EXCEPT ![h] = now]
    /\ hprior' = [hprior EXCEPT ![h] = {g \in Handlers : hpc[g] \in Returned}]
    /\ hpc' = [hpc EXCEPT ![h] = IF valid THEN "read" ELSE "rejected"]
    /\ UNCHANGED <<hdoc, hwrote, hspawned>>

\* if let Ok(data) = get_data(&key): the stored state is returned
MtCreateGet(h) ==
    /\ hpc[h] = "read"
    /\ IF MtLive(mtKey, now)
       THEN /\ hdoc' = [hdoc EXCEPT ![h] = mtKey.value]
            /\ hpc' = [hpc EXCEPT ![h] = "exists"]
       ELSE /\ hpc' = [hpc EXCEPT ![h] = "new"]
            /\ UNCHANGED hdoc
    /\ UNCHANGED <<mtVars, hreq, hnow, hwrote, hspawned, hprior>>

\* match new_data(&key, data, 600 * 1000): Err => 500, Ok(false) => the
\* placeholder is returned, Ok(true) => the job is spawned
MtCreateNew(h) ==
    /\ hpc[h] = "new"
    /\ \E reached \in BOOLEAN :
          IF reached
          THEN LET r == RedisNewData(mtKey, MtPlaceholder(hreq[h].model), MtTtlMs, now)
                   born == r.set /\ ~MtLive(mtKey, now)
               IN /\ mtKey' = r.key
                  /\ mtLife' = IF born THEN mtLife + 1 ELSE mtLife
                  /\ hlife' = [hlife EXCEPT ![h] = IF r.set THEN mtLife' ELSE 0]
                  /\ mtBorn' = IF born THEN now ELSE mtBorn
                  /\ UNCHANGED <<mtOut, mtEnd>>
                  /\ hpc' = [hpc EXCEPT ![h] = IF r.set THEN "spawn" ELSE "lost"]
          ELSE /\ hpc' = [hpc EXCEPT ![h] = "error"]
               /\ UNCHANGED mtVars
    /\ UNCHANGED <<hreq, hnow, hdoc, hwrote, hspawned, hprior>>

\* SET key value without the XX condition and without KEEPTTL
RedisUpdateDataUpsert(key, value, at) ==
    [set |-> TRUE,
     key |-> [present |-> TRUE, value |-> value, expires_at |-> 0]]

\* update_data: SET key value XX KEEPTTL; Ok(true) iff the key was set
RedisUpdateData(key, value, at) ==
    IF MtLive(key, at)
    THEN [set |-> TRUE, key |-> [key EXCEPT !.value = value]]
    ELSE [set |-> FALSE, key |-> key]

\* let _ = app.redis.update_data(&key, data).await: the result is dropped
MtUpdate(h, doc) ==
    \E reached \in BOOLEAN :
        IF reached
        THEN LET r == RedisUpdateData(mtKey, doc, now)
             IN /\ mtKey' = r.key
                /\ mtOut' = [mtOut EXCEPT ![h] =
                                [n |-> @.n + 1, last |-> IF r.set THEN "set" ELSE "absent"]]
        ELSE /\ mtOut' = [mtOut EXCEPT ![h] = [n |-> @.n + 1, last |-> "err"]]
             /\ UNCHANGED mtKey

\* translate, one turn of while let Some((i, ctx, res)) = rx.recv(): an
\* error is written with progress 0 and ends the job, a piece is written
\* with the progress and the tokens so far
MtJobPiece(h, ok) ==
    /\ hspawned[h] /\ ~mtEnd[h]
    /\ mtOut[h].n < MtPieces
    /\ LET done == mtOut[h].n + 1
           doc == IF ok
                  THEN [MtPlaceholder(hreq[h].model) EXCEPT
                           !.progress = (done * 100) \div MtPieces, !.tokens = done]
                  ELSE [MtPlaceholder(hreq[h].model) EXCEPT
                           !.tokens = done - 1, !.error = "call_openai"]
       IN MtUpdate(h, doc)
    /\ mtEnd' = [mtEnd EXCEPT ![h] = ~ok]
    /\ UNCHANGED <<mtLife, hlife, mtBorn>>

\* translate, after the last piece: the content is encoded and the result
\* written with progress 100, or the encoding error with progress 0
MtJobSave(h, encodes) ==
    /\ hspawned[h] /\ ~mtEnd[h]
    /\ mtOut[h].n = MtPieces
    /\ LET doc == IF encodes
                  THEN [MtPlaceholder(hreq[h].model) EXCEPT
                           !.progress = 100, !.tokens = MtPieces, !.content = <<"t">>]
                  ELSE [MtPlaceholder(hreq[h].model) EXCEPT
                           !.tokens = MtPieces, !.error = "to_cbor"]
       IN MtUpdate(h, doc)
    /\ mtEnd' = [mtEnd EXCEPT ![h] = TRUE]
    /\ UNCHANGED <<mtLife, hlife, mtBorn>>

MtCreateInit ==
    /\ now = 0
    /\ NoJob
    /\ NoHandlers
    /\ NoMessageKey
    /\ NoAICall
    /\ NoSearch
    /\ NoSegment
    /\ NoRepair
    /\ NoShutdown
    /\ NoStore
    /\ NoTrim
    /\ NoReplace
    /\ NoEmbedding
    /\ trRow = TrNoRow
    /\ sumRow = SumNoRow

MtCreateNext ==
    \/ Tick /\ UNCHANGED <<outsideMT, handlerVars, mtVars>>
    \/ \E h \in Handlers, m \in Models, valid \in BOOLEAN :
          MtCreateBegin(h, m, valid) /\ UNCHANGED <<now, outsideMT, mtVars>>
    \/ \E h \in Handlers : MtCreateGet(h) /\ UNCHANGED <<now, outsideMT>>
    \/ \E h \in Handlers : MtCreateNew(h) /\ UNCHANGED <<now, outsideMT>>
    \/ \E h \in Handlers : CreateSpawn(h) /\ UNCHANGED <<now, outsideMT, mtVars>>

SpecMT == MtCreateInit /\ [][MtCreateNext]_vars

\* the handlers whose creates spawn the jobs: one for each of two lives of
\* the key
MtJobHandlers == {1, 2}

\* well-formed creates of one model and the jobs they spawn
MtJobNext ==
    \/ Tick /\ UNCHANGED <<outsideMT, handlerVars, mtVars>>
    \/ \E h \in MtJobHandlers :
          MtCreateBegin(h, "gpt-3.5", TRUE) /\ UNCHANGED <<now, outsideMT, mtVars>>
    \/ \E h \in MtJobHandlers : MtCreateGet(h) /\ UNCHANGED <<now, outsideMT>>
    \/ \E h \in MtJobHandlers : MtCreateNew(h) /\ UNCHANGED <<now, outsideMT>>
    \/ \E h \in MtJobHandlers : CreateSpawn(h) /\ UNCHANGED <<now, outsideMT, mtVars>>
    \/ \E h \in MtJobHandlers, ok \in BOOLEAN :
          MtJobPiece(h, ok) /\ UNCHANGED <<now, outsideMT, handlerVars>>
    \/ \E h \in MtJobHandlers, encodes \in BOOLEAN :
          MtJobSave(h, encodes) /\ UNCHANGED <<now, outsideMT, handlerVars>>

SpecMTJob == MtCreateInit /\ [][MtJobNext]_vars

\* C8: a create spawns a job only when its own set-if-absent write set the
\* key; a create that found the key present or whose write did not set it
\* returns without a spawn; and no two creates spawn within one life of the
\* key, whatever the interleaving.
MtSpawnOnlyByLockWinner ==
    /\ \A h \in Handlers :
          /\ (hspawned[h] \/ hpc[h] = "spawn") => hlife[h] > 0
          /\ hpc[h] \in {"exists", "lost"} => ~hspawned[h] /\ hlife[h] = 0
          /\ hpc[h] = "done" => hspawned[h]
    /\ \A g, h \in Handlers :
          (g # h /\ hlife[g] > 0 /\ hlife[h] > 0) => hlife[g] # hlife[h]

\* C8 witness: two creates raced past the read of the absent key; one set
\* the key and spawned, the other lost the write and returned
MtRaceLost ==
    \E g, h \in Handlers :
        /\ hpc[g] = "done" /\ hspawned[g]
        /\ hpc[h] = "lost" /\ g \notin hprior[h] /\ hnow[h] = hnow[g]

(***************************************************************************)
(* One operation of the LLM client (openai.rs): do_translate,              *)
(* do_summarize, do_keywords, do_embedding.                                *)
(***************************************************************************)
outsideAI == <<now, jobVars, trRow, sumRow, handlerVars, mtVars, embVars, srchVars, segVars, rtVars, jsVars,
    sdVars, stVars, tmVars>>

AIOps == {"translate", "summarize", "keywords", "embedding"}

\* what one upstream request can meet: the request is not sent or gets no
\* response (reqwest error), or an HTTP response arrives with a status, a
\* body and, for a chat completion, the finish reason of its choice
Upstream ==
    {[kind |-> "send", status |-> 0, detail |-> d] : d \in {"timed out", "connection refused"}}
    \cup {[kind |-> "http", status |-> 200, detail |-> d] :
            d \in {"stop", "length", "content_filter", "function_call", "no choices"}}
    \cup {[kind |-> "http", status |-> 400, detail |-> d] :
            d \in {"context_length_exceeded", "content_filter", "invalid request"}}
    \cup {[kind |-> "http", status |-> st, detail |-> ""] :
            st \in {401, 429, 500, 502, 503}}

\* get_params: list[rand_index % list.len()], or the OpenAI account (-1)
\* when the list is empty
GetParams(n, index) == IF n = 0 THEN -1 ELSE index % n

\* request: the status of the HTTPError it returns, 200 for Ok
Request(up) ==
    IF up.kind = "send"
    THEN IF up.detail = "timed out" THEN 504 ELSE 500
    ELSE IF up.status = 200 THEN 200
    ELSE IF up.status = 400
         THEN IF up.detail = "context_length_exceeded" THEN 422
              ELSE IF up.detail = "content_filter" THEN 451
              ELSE 400
    ELSE up.status

\* check_chat_response: an Ok response is judged by its finish reason
CheckChatResponse(code, up) ==
    IF code # 200 THEN code
    ELSE IF up.detail = "no choices" THEN 500
    ELSE IF up.detail = "stop" THEN 200
    ELSE IF up.detail = "content_filter" THEN 452
    ELSE IF up.detail = "length" THEN 422
    ELSE 500

\* what the operation sees of one request
Outcome(op, up) ==
    IF op = "embedding" THEN Request(up) ELSE CheckChatResponse(Request(up), up)

\* the retry guard widened to the whole 5xx range
ShouldRetryFrom500(code) == code = 429 \/ code >= 500

\* Err(err) if err.code == 429 || err.code > 500
ShouldRetry(code) == code = 429 \/ code > 500

\* the operation begins: rand_index = rand::random::<u32>() + 1
AIBegin(op, n, r) ==
    /\ aipc = "idle"
    /\ aiop' = op
    /\ aiBackends' = n
    /\ rand_index' = r + 1
    /\ aipc' = "first"
    /\ UNCHANGED <<aiReqs, aiResult>>

\* the first request and the match on its result
AIFirst(up) ==
    LET code == Outcome(aiop, up)
    IN /\ aipc = "first"
       /\ aiReqs' = Append(aiReqs, [backend |-> GetParams(aiBackends, rand_index),
                                    code |-> code])
       /\ IF code # 200 /\ ShouldRetry(code)
          THEN /\ rand_index' = rand_index + 1
               /\ aipc' = "second"
               /\ UNCHANGED aiResult
          ELSE /\ aiResult' = code
               /\ aipc' = "done"
               /\ UNCHANGED rand_index
       /\ UNCHANGED <<aiop, aiBackends>>

\* the second request: its result is the operation's
AISecond(up) ==
    LET code == Outcome(aiop, up)
    IN /\ aipc = "second"
       /\ aiReqs' = Append(aiReqs, [backend |-> GetParams(aiBackends, rand_index),
                                    code |-> code])
       /\ aiResult' = code
       /\ aipc' = "done"
       /\ UNCHANGED <<aiop, aiBackends, rand_index>>

AIInit ==
    /\ now = 0
    /\ NoJob
    /\ NoHandlers
    /\ NoMessageKey
    /\ NoAICall
    /\ NoSearch
    /\ NoSegment
    /\ NoRepair
    /\ NoShutdown
    /\ NoStore
    /\ NoTrim
    /\ NoReplace
    /\ NoEmbedding
    /\ trRow = TrNoRow
    /\ sumRow = SumNoRow

AINext ==
    \/ \E op \in AIOps, n \in 0 .. MaxBackends, r \in 0 .. MaxRand :
          AIBegin(op, n, r) /\ UNCHANGED outsideAI
    \/ \E up \in Upstream : AIFirst(up) /\ UNCHANGED outsideAI
    \/ \E up \in Upstream : AISecond(up) /\ UNCHANGED outsideAI

SpecAI == AIInit /\ [][AINext]_vars

\* the backend after b in the rotation of n backends
NextBackend(n, b) == IF n = 0 THEN -1 ELSE (b + 1) % n

\* C9 as stated: at most two requests; a second request is made exactly
\* when the first failed with status 429 or a status of 500 or above, and
\* goes to the next backend; the result is the last request's.
RetryOn429Or5xx ==
    /\ Len(aiReqs) <= 2
    /\ aipc = "done" =>
          /\ Len(aiReqs) >= 1
          /\ Len(aiReqs) = 2 <=> (aiReqs[1].code = 429 \/ aiReqs[1].code >= 500)
          /\ Len(aiReqs) = 2 => aiReqs[2].backend = NextBackend(aiBackends, aiReqs[1].backend)
          /\ aiResult = aiReqs[Len(aiReqs)].code

\* C9 amended: at most two requests; a second request is made exactly when
\* the first failed with status 429 or a status above 500, and goes to the
\* next backend of the rotation; a first failure with any other status, 500
\* included, is the result; otherwise the result is the last request's.
RetryOn429OrAbove500 ==
    /\ Len(aiReqs) <= 2
    /\ aipc = "second" => Len(aiReqs) = 1
    /\ aipc = "done" =>
          /\ Len(aiReqs) >= 1
          /\ Len(aiReqs) = 2 <=> (aiReqs[1].code = 429 \/ aiReqs[1].code > 500)
          /\ Len(aiReqs) = 2 => aiReqs[2].backend = NextBackend(aiBackends, aiReqs[1].backend)
          /\ aiResult = aiReqs[Len(aiReqs)].code

\* C9 witness: a first request failed with 502 on the last backend of three,
\* the second went to the first backend and failed with 429, which is the
\* result
RetriedOnceAndFailed ==
    /\ aipc = "done" /\ aiBackends = 3 /\ Len(aiReqs) = 2
    /\ aiReqs[1] = [backend |-> 2, code |-> 502]
    /\ aiReqs[2] = [backend |-> 0, code |-> 429]
    /\ aiResult = 429

(***************************************************************************)
(* The embedding job (api/embedding.rs, embedding).                        *)
(***************************************************************************)
outsideEmb == <<now, jobVars, trRow, sumRow, handlerVars, mtVars, aiVars, srchVars, segVars, rtVars, jsVars,
    sdVars, stVars, tmVars>>

\* unit.ids().join(","): the ids of unit u of group g
UnitIds(g, u) == <<g, u>>

\* a uuid that also digests the version of the job
EmbeddingUuidOfVersion(cid, lang, ids) == <<cid, lang, ids, eversion>>

\* Embedding::from(cid, lang, ids): the uuid is the first 16 bytes of the
\* SHA3-256 digest of cid, lang and ids, and of nothing else
EmbeddingUuid(cid, lang, ids) == <<cid, lang, ids>>

\* the uuid of the unit at hand
UnitUuid == EmbeddingUuid("cid", "eng", UnitIds(eg, eu))

\* the position after the unit at hand: its next unit, or the next group
EmbAdvance ==
    IF eu < einput[eg]
    THEN epc' = "save" /\ eu' = eu + 1 /\ UNCHANGED eg
    ELSE epc' = "embed" /\ eu' = 0 /\ eg' = eg + 1

\* the job goes on to the point whatever save returned
AfterSaveAlways(saved) == "point"

\* match doc.save(..): Err is logged, Ok goes on to add_points
AfterSave(saved) == IF saved THEN "point" ELSE "next"

\* the loop over the groups ends at the first failed call
AfterEmbedErrBreak(g) == Len(einput) + 1

\* Err(err) => { log::error!(..); continue; }: the next group is at hand
AfterEmbedErr(g) == g + 1

\* app.ai.embedding(group): Err => continue with the next group
EmbCallAI ==
    /\ epc = "embed" /\ eg <= Len(einput)
    /\ \E embedded \in BOOLEAN :
          IF embedded
          THEN epc' = "save" /\ eu' = 1 /\ UNCHANGED eg
          ELSE eg' = AfterEmbedErr(eg) /\ UNCHANGED <<epc, eu>>
    /\ UNCHANGED <<einput, embRows, embPoints, eversion, eoverwrote>>

\* the unit's content is encoded (Err => continue) and the row is saved
EmbSave ==
    /\ epc = "save"
    /\ \E encoded \in BOOLEAN, saved \in BOOLEAN :
          IF ~encoded
          THEN EmbAdvance /\ UNCHANGED <<embRows, eoverwrote>>
          ELSE /\ embRows' = IF saved THEN embRows \cup {UnitUuid} ELSE embRows
               /\ IF AfterSave(saved) = "point"
                  THEN epc' = "point" /\ UNCHANGED <<eg, eu>>
                  ELSE EmbAdvance
               /\ eoverwrote' = (eoverwrote \/ (saved /\ UnitUuid \in embRows))
    /\ UNCHANGED <<einput, embPoints, eversion>>

\* qdrant.add_points([doc.qdrant_point(vectors)]): Ok or Err, both logged
EmbAddPoint ==
    /\ epc = "point"
    /\ \E added \in BOOLEAN :
          embPoints' = IF added THEN embPoints \cup {UnitUuid} ELSE embPoints
    /\ EmbAdvance
    /\ UNCHANGED <<einput, embRows, eversion, eoverwrote>>

\* the loop over the groups is over
EmbFinish ==
    /\ epc = "embed" /\ eg > Len(einput)
    /\ epc' = "done"
    /\ UNCHANGED <<einput, eg, eu, embRows, embPoints, eversion, eoverwrote>>

\* create of /v1/embedding spawns the job again, for the same content, cid
\* and language and the next version
EmbAgain ==
    /\ epc = "done" /\ eversion < MaxVersions
    /\ eversion' = eversion + 1
    /\ epc' = "embed"
    /\ eg' = 1
    /\ eu' = 0
    /\ UNCHANGED <<einput, embRows, embPoints, eoverwrote>>

EmbeddingInit ==
    /\ now = 0
    /\ NoJob
    /\ NoHandlers
    /\ NoMessageKey
    /\ NoAICall
    /\ NoSearch
    /\ NoSegment
    /\ NoRepair
    /\ NoShutdown
    /\ NoStore
    /\ NoTrim
    /\ NoReplace
    /\ trRow = TrNoRow
    /\ sumRow = SumNoRow
    /\ epc = "embed"
    /\ \E n \in 0 .. MaxGroups : einput \in [1 .. n -> 1 .. MaxUnits]
    /\ eg = 1
    /\ eu = 0
    /\ embRows = {}
    /\ embPoints = {}
    /\ eversion = 1
    /\ eoverwrote = FALSE

EmbeddingNext ==
    \/ EmbCallAI /\ UNCHANGED outsideEmb
    \/ EmbSave /\ UNCHANGED outsideEmb
    \/ EmbAddPoint /\ UNCHANGED outsideEmb
    \/ EmbFinish /\ UNCHANGED outsideEmb
    \/ EmbAgain /\ UNCHANGED outsideEmb

SpecEmbedding == EmbeddingInit /\ [][EmbeddingNext]_vars

\* C10: every point of the private collection has a row of the same uuid,
\* at every moment of the job; while the job is about to add the point of
\* a unit, the row of that unit is saved.
PointsHaveRows ==
    /\ embPoints \subseteq embRows
    /\ epc = "point" => UnitUuid \in embRows

\* C10 witness: the job is over, a point was added, and a row is left
\* without a point
RowWithoutPoint ==
    /\ epc = "done"
    /\ embPoints # {}
    /\ embRows \ embPoints # {}

\* the units of the content the jobs embed
InputUnits == {x \in (DOMAIN einput) \X (1 .. MaxUnits) : x[2] <= einput[x[1]]}

\* C13: whatever the number of jobs run over the same content, cid and
\* language, the rows and the points carry only the uuids of that content's
\* units, one each: a later job's writes land on the uuids of the earlier
\* job, and neither the rows nor the points outnumber the units.
RerunKeepsUuids ==
    /\ embRows \subseteq {EmbeddingUuid("cid", "eng", UnitIds(x[1], x[2])) : x \in InputUnits}
    /\ Cardinality(embRows) <= Cardinality(InputUnits)
    /\ Cardinality(embPoints) <= Cardinality(InputUnits)

\* C13 witness: a second job has run to its end over rows of the first, and
\* every unit has its one row and its one point
RerunOverwrote ==
    /\ epc = "done" /\ eversion = 2 /\ eoverwrote
    /\ Cardinality(InputUnits) >= 2
    /\ Cardinality(embRows) = Cardinality(InputUnits)
    /\ Cardinality(embPoints) = Cardinality(InputUnits)

(***************************************************************************)
(* search and public of /v1/embedding (api/embedding.rs) over the vector   *)
(* store (db/qdrant.rs).                                                   *)
(***************************************************************************)
outsideSearch == <<now, jobVars, trRow, sumRow, handlerVars, mtVars, aiVars,
                   epc, einput, eg, eu, eversion, eoverwrote, segVars, rtVars, jsVars,
    sdVars, stVars, tmVars>>

\* the documents that get embedded: creation and language; c1 and c2 belong
\* to group g1, c3 to group g2
Documents == {<<"c1", "eng">>, <<"c2", "zho">>, <<"c3", "eng">>}

GidOf(cid) == IF cid = "c3" THEN "g2" ELSE "g1"

\* the uuids of the units of a document
DocumentUuids(d) == {EmbeddingUuid(d[1], d[2], <<1, u>>) : u \in 1 .. MaxDocUnits}

\* the row of a uuid as get_one reads it
RowOf(uuid) == [gid |-> GidOf(uuid[1]), cid |-> uuid[1], language |-> uuid[2]]

\* qdrant_point: the payload has the keys cid, lang and gid
QdrantPoint(uuid) ==
    [cid |-> RowOf(uuid).cid, lang |-> RowOf(uuid).language, gid |-> RowOf(uuid).gid]

\* the names of the two collections
CollectionName == "jarvis"
CollectionPub == "jarvis_pub"

\* the points of a collection of the vector store
Collection(name) ==
    IF name = CollectionName THEN embPoints
    ELSE IF name = CollectionPub THEN qdPub
    ELSE {}

\* search_points searches self.collection_name
SearchPointsIn == CollectionName

\* search_public_points searches self.collection_name as well
SearchPublicPointsIn == CollectionName

\* let mut public = input.public.unwrap_or(false); gid omitted => public
IsPublic(req) == req.public = "true" \/ req.gid = ""

\* the must conditions of the filter: one per field the request gives
SearchFilter(req) ==
    [k \in {k \in {"gid", "language", "cid"} : req[k] # ""} |-> req[k]]

\* a point passes the filter when its payload has every key with the value
Matches(payload, f) ==
    \A k \in DOMAIN f : k \in DOMAIN payload /\ payload[k] = f[k]

\* the sequences without repetition of min(limit, |S|) elements of S: the
\* rank order is the vector store's
Ranked(S, limit) ==
    LET n == IF Cardinality(S) < limit THEN Cardinality(S) ELSE limit
    IN {h \in [1 .. n -> S] : \A i, j \in 1 .. n : i # j => h[i] # h[j]}

\* every hit becomes an entry
KeepAllHits(hits, k, res) ==
    [j \in 1 .. Len(hits) |-> RowOf(hits[j])]

\* the loop over qd_res.result from hit k on: a hit whose cid is in res
\* already is skipped, any other is pushed
RECURSIVE DedupeByCid(_, _, _)
DedupeByCid(hits, k, res) ==
    IF k > Len(hits) THEN res
    ELSE IF \E j \in 1 .. Len(res) : res[j].cid = RowOf(hits[k]).cid
         THEN DedupeByCid(hits, k + 1, res)
         ELSE DedupeByCid(hits, k + 1, Append(res, RowOf(hits[k])))

\* the embedding job of a document has saved its rows and added its points
SearchEmbedded(d) ==
    /\ ~(DocumentUuids(d) \subseteq embPoints)
    /\ embRows' = embRows \cup DocumentUuids(d)
    /\ embPoints' = embPoints \cup DocumentUuids(d)
    /\ UNCHANGED srchVars

\* public: list_by_cid(cid, gid, language, version), then copy_to_public
\* of the uuids in the spawned task: get_points from the private collection,
\* upsert_points to the public one
Public(d, gid) ==
    LET uuids == {r \in embRows : RowOf(r).cid = d[1] /\ RowOf(r).language = d[2]
                                  /\ RowOf(r).gid = gid}
    IN /\ \E copied \in BOOLEAN :
             qdPub' = IF copied THEN qdPub \cup (uuids \cap Collection(CollectionName))
                      ELSE qdPub
       /\ UNCHANGED <<embRows, embPoints, sreq, shits, sres, sstatus, sseen>>

\* search: the request req; fault names the call that fails, if any. One
\* search is followed: it writes nothing, so no search depends on another
Search(req, fault) ==
    LET name == IF IsPublic(req) THEN SearchPublicPointsIn ELSE SearchPointsIn
        found == {p \in Collection(name) : Matches(QdrantPoint(p), SearchFilter(req))}
    IN /\ sstatus = 0
       /\ sreq' = req
       /\ sseen' = [private |-> embPoints, public |-> qdPub, searched |-> Collection(name)]
       /\ IF req.short
          THEN sstatus' = 200 /\ shits' = <<>> /\ sres' = <<>>
          ELSE IF fault \in {"ai", "qdrant"}
          THEN sstatus' = 500 /\ shits' = <<>> /\ sres' = <<>>
          ELSE \E hits \in Ranked(found, SearchLimit) :
                  /\ shits' = hits
                  /\ IF fault = "scylla" /\ hits # <<>>
                     THEN sstatus' = 500 /\ sres' = <<>>
                     ELSE sstatus' = 200 /\ sres' = DedupeByCid(hits, 1, <<>>)
       /\ UNCHANGED <<embRows, embPoints, qdPub>>

\* the requests: a short input or not, public given or not, and each of
\* gid, language and cid given or not
Requests ==
    [short : BOOLEAN, public : {"", "true", "false"}, gid : {"", "g1", "g2"},
     language : {"", "eng", "zho"}, cid : {"", "c1", "c3"}]

SearchInit ==
    /\ now = 0
    /\ NoJob
    /\ NoHandlers
    /\ NoMessageKey
    /\ NoAICall
    /\ NoSearch
    /\ NoSegment
    /\ NoRepair
    /\ NoShutdown
    /\ NoStore
    /\ NoTrim
    /\ NoReplace
    /\ NoEmbedding
    /\ trRow = TrNoRow
    /\ sumRow = SumNoRow

SearchNext ==
    \/ \E d \in Documents : SearchEmbedded(d) /\ UNCHANGED outsideSearch
    \/ \E d \in Documents, gid \in {"g1", "g2"} : Public(d, gid) /\ UNCHANGED outsideSearch
    \/ \E req \in Requests, fault \in {"none", "ai", "qdrant", "scylla"} :
          /\ req.short => fault = "none"
          /\ Search(req, fault) /\ UNCHANGED outsideSearch

SpecSearch == SearchInit /\ [][SearchNext]_vars

\* C11: a search that omits gid or asks for public content returns only
\* points that publish had copied to the public collection when the search
\* was made; and when a published point agrees with every field the request
\* gives, such a search returns a hit.
PublicSearchOnlyPublished ==
    (sstatus = 200 /\ IsPublic(sreq)) =>
        /\ \A k \in DOMAIN shits : shits[k] \in sseen.public
        /\ (~sreq.short /\ \E p \in sseen.public :
                \A k \in DOMAIN SearchFilter(sreq) : RowOf(p)[k] = sreq[k])
              => sres # <<>>

\* C12: when a point of the searched collection was embedded with the gid,
\* the language and the cid the request gives, the search returns a hit.
FilterMatchesEmbedded ==
    (sstatus = 200 /\ ~sreq.short
       /\ \E p \in sseen.searched :
             \A k \in DOMAIN SearchFilter(sreq) : RowOf(p)[k] = sreq[k])
    => sres # <<>>

\* C14: the list a search returns has at most 3 entries and no two with the
\* same cid, and it is the hits in rank order less every hit whose cid an
\* earlier hit has.
SearchResultDeduped ==
    sstatus = 200 =>
        LET first == {k \in DOMAIN shits :
                         \A j \in 1 .. k - 1 : RowOf(shits[j]).cid # RowOf(shits[k]).cid}
        IN /\ Len(sres) <= 3
           /\ \A i, j \in DOMAIN sres : i # j => sres[i].cid # sres[j].cid
           /\ Len(sres) = Cardinality(first)
           /\ \A i \in DOMAIN sres :
                 \E k \in first : /\ sres[i] = RowOf(shits[k])
                                  /\ Cardinality({j \in first : j < k}) = i - 1

\* C14 witness: of three hits the first and the third are of one creation,
\* and the search returned the first and the second
SearchDroppedRepeat ==
    /\ sstatus = 200 /\ Len(shits) = 3 /\ Len(sres) = 2
    /\ RowOf(shits[1]).cid = RowOf(shits[3]).cid
    /\ sres[1] = RowOf(shits[1]) /\ sres[2] = RowOf(shits[2])

(***************************************************************************)
(* Failures of the LLM calls of the summarize job.                         *)
(***************************************************************************)
\* the step in which the job meets the failure of an LLM call: the
\* collector takes an Err, the second summarize fails, or keywords fails
SumLLMFailureStep ==
    \/ jpc = "collect" /\ jpc' = "failed"
    \/ jpc = "condense" /\ jpc' # "condense" /\ progress' = progress
    \/ jpc = "keywords" /\ jpc' # "keywords" /\ output' = output

\* C15: the step in which the summarize job meets the failure of an LLM
\* call (of a piece, of the final condensation, of the keywords) leaves the
\* row with a non-empty error and ends the job, which writes no progress
\* 100 afterwards.
SumLLMFailureEndsJob ==
    [][SumLLMFailureStep => (sumRow'.error # "" /\ jpc' = "failed")]_vars

(***************************************************************************)
(* TESegmenter::segment (api/mod.rs): the units of a translation.          *)
(***************************************************************************)
outsideSeg == <<now, jobVars, trRow, sumRow, handlerVars, mtVars, aiVars, embVars,
                srchVars, rtVars, jsVars, sdVars, stVars, tmVars>>

\* AIModel::translating_segment_tokens: (recommend, high) of either model
TranslatingSegmentTokens(model) == <<3000, 3400>>

SECTION_SEPARATOR == <<"------", 0>>

\* the id of the node at position i of a document
NodeId(i) == <<"node", i>>

\* what tokens_len may count for the serialized texts of an item: the
\* serialized form is never empty, so the count is never 0
TokenCounts == {1, 1700, 3000, 3401}

\* the items position i of a content list may hold: a section separator,
\* an item without texts, an item with texts, and an item with texts that
\* has the id of the separator
ItemsAt(i) ==
    {[id |-> SECTION_SEPARATOR, texts |-> <<>>, tokens |-> 0],
     [id |-> NodeId(i), texts |-> <<>>, tokens |-> 0],
     [id |-> SECTION_SEPARATOR, texts |-> <<"text">>, tokens |-> 1]}
    \cup {[id |-> NodeId(i), texts |-> <<"text">>, tokens |-> t] : t \in TokenCounts}

\* the content lists of n items
ContentLists(n) == {c \in [1 .. n -> UNION {ItemsAt(i) : i \in 1 .. n}] :
                       \A i \in 1 .. n : c[i] \in ItemsAt(i)}

\* the unit is closed whatever it holds and is lost
CloseUnitLost(list, unit) == list

\* if !unit.content.is_empty() { list.push(unit) }
CloseUnit(list, unit) == IF unit.content # <<>> THEN Append(list, unit) ELSE list

\* the budget is compared before the item is counted
OverflowsBefore(tokens, ctl, ht) == tokens > ht

\* unit.tokens + ctl > ht
Overflows(tokens, ctl, ht) == tokens + ctl > ht

\* one pass of the loop over self
SegmentItem ==
    LET c == segContent[segI]
        st == TranslatingSegmentTokens("gpt-3.5")[1]
        ht == TranslatingSegmentTokens("gpt-3.5")[2]
    IN /\ segpc = "loop" /\ segI <= Len(segContent)
       /\ IF c.texts = <<>>
          THEN IF c.id = SECTION_SEPARATOR /\ segUnit.tokens >= st
               THEN segList' = Append(segList, segUnit) /\ segUnit' = EmptyUnit
               ELSE UNCHANGED <<segList, segUnit>>
          ELSE IF Overflows(segUnit.tokens, c.tokens, ht)
               THEN /\ segList' = CloseUnit(segList, segUnit)
                    /\ segUnit' = [tokens |-> c.tokens, content |-> <<c>>]
               ELSE /\ segUnit' = [tokens |-> segUnit.tokens + c.tokens,
                                   content |-> Append(segUnit.content, c)]
                    /\ UNCHANGED segList
       /\ segI' = segI + 1
       /\ UNCHANGED <<segpc, segContent>>

\* after the loop: if unit.tokens > 0 { list.push(unit) }
SegmentEnd ==
    /\ segpc = "loop" /\ segI > Len(segContent)
    /\ segList' = IF segUnit.tokens > 0 THEN Append(segList, segUnit) ELSE segList
    /\ segpc' = "done"
    /\ UNCHANGED <<segContent, segI, segUnit>>

SegmentInit ==
    /\ now = 0
    /\ NoJob
    /\ NoHandlers
    /\ NoMessageKey
    /\ NoAICall
    /\ NoSearch
    /\ NoEmbedding
    /\ trRow = TrNoRow
    /\ sumRow = SumNoRow
    /\ segpc = "loop"
    /\ \E n \in 0 .. MaxItems : segContent \in ContentLists(n)
    /\ segI = 1
    /\ segUnit = EmptyUnit
    /\ segList = <<>>
    /\ NoReplace
    /\ NoRepair
    /\ NoShutdown
    /\ NoStore
    /\ NoTrim

SegmentNext ==
    \/ SegmentItem /\ UNCHANGED outsideSeg
    \/ SegmentEnd /\ UNCHANGED outsideSeg

SpecSegment == SegmentInit /\ [][SegmentNext]_vars

\* the sum of the token counts of the items of a list
RECURSIVE SumTokens(_)
SumTokens(items) ==
    IF items = <<>> THEN 0 ELSE items[1].tokens + SumTokens(Tail(items))

\* the contents of the units of a list, one after the other
RECURSIVE ConcatUnits(_)
ConcatUnits(list) ==
    IF list = <<>> THEN <<>> ELSE list[1].content \o ConcatUnits(Tail(list))

HasTexts(c) == c.texts # <<>>

IsSeparator(c) == c.id = SECTION_SEPARATOR /\ c.texts = <<>>

NotSeparator(c) == ~IsSeparator(c)

\* C16: every unit the segmenter returns carries the token count of its
\* items, and either that count is at most the high budget of the model or
\* the unit is a single item whose own count exceeds the budget.
SegmentTokenBound ==
    segpc = "done" =>
        \A k \in DOMAIN segList :
            LET u == segList[k]
            IN /\ u.tokens = SumTokens(u.content)
               /\ \/ u.tokens <= TranslatingSegmentTokens("gpt-4")[2]
                  \/ /\ Len(u.content) = 1
                     /\ u.content[1].tokens > TranslatingSegmentTokens("gpt-4")[2]

\* C16 witness: the segmenter returned a unit of one item over the budget
\* between two units within it
SegmentedAroundLargeItem ==
    /\ segpc = "done" /\ Len(segList) = 3
    /\ segList[2].tokens > TranslatingSegmentTokens("gpt-4")[2]
    /\ Len(segList[3].content) = 2

\* C17 as stated: the contents of the units, one after the other, are the
\* items of the input that are not section separators, in the input's order.
SegmentKeepsNonSeparators ==
    segpc = "done" => ConcatUnits(segList) = SelectSeq(segContent, NotSeparator)

\* C17 amended: the contents of the units, one after the other, are the
\* items of the input that have texts, in the input's order, each once.
SegmentKeepsItemsWithTexts ==
    segpc = "done" => ConcatUnits(segList) = SelectSeq(segContent, HasTexts)

\* C17 witness: a list with a separator and an item without texts among
\* two items with texts came out as two units
SegmentedMixedList ==
    /\ segpc = "done" /\ Len(segList) >= 2
    /\ Len(SelectSeq(segContent, HasTexts)) = 2
    /\ \E i \in DOMAIN segContent : IsSeparator(segContent[i])
    /\ \E i \in DOMAIN segContent : ~HasTexts(segContent[i]) /\ ~IsSeparator(segContent[i])

(***************************************************************************)
(* TEUnit::to_translating_list and TEUnit::replace_texts (api/mod.rs).     *)
(* A string is the sequence of its characters.                             *)
(***************************************************************************)
outsideRt == <<now, jobVars, trRow, sumRow, handlerVars, mtVars, aiVars, embVars,
               srchVars, segVars, jsVars, sdVars, stVars, tmVars>>

Digits == <<"0", "1", "2", "3", "4", "5", "6", "7", "8", "9">>

\* the colons an order may end with, each one character; the second, the
\* fullwidth colon, stands for the seven colons of COLONS that are not ':' 
COLONS == {":", "U+FF1A"}

\* format!("{}", i): the decimal digits of i
RECURSIVE Decimal(_)
Decimal(i) ==
    IF i < 10 THEN <<Digits[i + 1]>> ELSE Decimal(i \div 10) \o <<Digits[(i % 10) + 1]>>

\* format!("{}:", i)
FormatOrder(i) == Decimal(i) \o <<":">>

DigitValue(ch) == CHOOSE d \in 0 .. 9 : Digits[d + 1] = ch

IsDigit(ch) == \E d \in 0 .. 9 : Digits[d + 1] = ch

RECURSIVE DigitsValue(_)
DigitsValue(str) ==
    IF str = <<>> THEN 0
    ELSE DigitsValue(SubSeq(str, 1, Len(str) - 1)) * 10 + DigitValue(str[Len(str)])

\* s.parse::<usize>().unwrap_or(0): an optional '+', then digits only
ParseUsizeOr0(str) ==
    LET body == IF str # <<>> /\ str[1] = "+" THEN Tail(str) ELSE str
    IN IF body # <<>> /\ \A k \in DOMAIN body : IsDigit(body[k])
       THEN DigitsValue(body)
       ELSE 0

\* TEUnit::to_translating_list: each item as its order followed by its texts
ToTranslatingList(content) ==
    [i \in DOMAIN content |-> <<FormatOrder(i)>> \o content[i].texts]

\* an extract_order that leaves the order among the texts
ExtractOrderKeepsHead(v) ==
    IF v = <<>> THEN <<0, v>>
    ELSE LET head == v[1]
             o == IF head # <<>> /\ head[Len(head)] \in COLONS
                  THEN ParseUsizeOr0(SubSeq(head, 1, Len(head) - 1))
                  ELSE 0
         IN <<o, v>>

\* TEUnit::extract_order of Some(v)
ExtractOrderSome(v) ==
    IF v = <<>> THEN <<0, v>>
    ELSE LET head == v[1]
             o == IF head # <<>> /\ head[Len(head)] \in COLONS
                  THEN ParseUsizeOr0(SubSeq(head, 1, Len(head) - 1))
                  ELSE 0
         IN IF o > 0 THEN <<o, Tail(v)>> ELSE <<0, v>>

\* TEUnit::extract_order of iter.next() after k entries were yielded
ExtractOrder(input, k) ==
    IF k < Len(input) THEN ExtractOrderSome(input[k + 1]) ELSE <<0, <<>>>>

\* the entry is used only once the loop has passed its order
DueAfter(o, i) == o < i + 1

\* o <= i + 1, with i counted from 0
Due(o, i) == o <= i + 1

\* the texts an item of a unit may have
TextsChoices ==
    {<<>>,
     << <<"a">> >>,
     << <<>> >>,
     << <<"2", ":">> >>,
     << <<"9", ":">>, <<"a">> >>,
     << <<"a">>, <<"1", "U+FF1A">> >>}

\* the units of n items
UnitContents(n) ==
    {c \in [1 .. n -> [id : {NodeId(i) : i \in 1 .. n}, texts : TextsChoices]] :
        \A i \in 1 .. n : c[i].id = NodeId(i)}

\* u.replace_texts(u.to_translating_list()): the call and the first
\* extract_order
ReplaceBegin ==
    /\ rtpc = "start"
    /\ rtInput' = ToTranslatingList(rtContent)
    /\ rtO' = ExtractOrder(rtInput', 0)[1]
    /\ rtV' = ExtractOrder(rtInput', 0)[2]
    /\ rtK' = 1
    /\ rtI' = 0
    /\ rtRes' = <<>>
    /\ rtAt' = <<>>
    /\ rtpc' = "loop"
    /\ UNCHANGED rtContent

\* every item gets the id of the first item of the unit
ItemOfFirst(content, i, texts) == [id |-> content[1].id, texts |-> texts]

\* TEContent { id: self.content[i].id.clone(), texts }, i counted from 0
ItemOf(content, i, texts) == [id |-> content[i + 1].id, texts |-> texts]

\* one pass of the loop for i in 0..len
ReplaceItem ==
    /\ rtpc = "loop" /\ rtI < Len(rtContent)
    /\ IF Due(rtO, rtI)
       THEN /\ rtRes' = Append(rtRes, ItemOf(rtContent, rtI, rtV))
            /\ rtAt' = IF rtK <= Len(rtInput) THEN Append(rtAt, rtI + 1) ELSE rtAt
            /\ rtO' = ExtractOrder(rtInput, rtK)[1]
            /\ rtV' = ExtractOrder(rtInput, rtK)[2]
            /\ rtK' = rtK + 1
       ELSE /\ rtRes' = Append(rtRes, ItemOf(rtContent, rtI, <<>>))
            /\ UNCHANGED <<rtO, rtV, rtK, rtAt>>
    /\ rtI' = rtI + 1
    /\ UNCHANGED <<rtpc, rtContent, rtInput>>

\* the loop is over: res is returned
ReplaceEnd ==
    /\ rtpc = "loop" /\ rtI = Len(rtContent)
    /\ rtpc' = "done"
    /\ UNCHANGED <<rtContent, rtInput, rtK, rtO, rtV, rtI, rtRes, rtAt>>

ReplaceInit ==
    /\ now = 0
    /\ NoJob
    /\ NoHandlers
    /\ NoMessageKey
    /\ NoAICall
    /\ NoSearch
    /\ NoEmbedding
    /\ NoSegment
    /\ NoRepair
    /\ NoShutdown
    /\ NoStore
    /\ NoTrim
    /\ trRow = TrNoRow
    /\ sumRow = SumNoRow
    /\ rtpc = "start"
    /\ \E n \in 0 .. MaxItems : rtContent \in UnitContents(n)
    /\ rtInput = <<>>
    /\ rtK = 0
    /\ rtO = 0
    /\ rtV = <<>>
    /\ rtI = 0
    /\ rtRes = <<>>
    /\ rtAt = <<>>

ReplaceNext ==
    \/ ReplaceBegin /\ UNCHANGED outsideRt
    \/ ReplaceItem /\ UNCHANGED outsideRt
    \/ ReplaceEnd /\ UNCHANGED outsideRt

SpecReplace == ReplaceInit /\ [][ReplaceNext]_vars

\* the text of row j of a model output: the letter t and the digits of j
RowText(j) == <<"t">> \o Decimal(j)

\* row j of a model output: empty (p = -1), its text alone (p = 0), or the
\* order p and its text
OutputRow(p, j) ==
    IF p = -1 THEN <<>>
    ELSE IF p = 0 THEN <<RowText(j)>>
    ELSE <<FormatOrder(p), RowText(j)>>

\* the model outputs of r rows for a unit of n items: each row empty,
\* without order, or with an order up to one past the unit's length
ModelRows(n, r) ==
    {[j \in 1 .. r |-> OutputRow(ps[j], j)] : ps \in [1 .. r -> -1 .. (n + 1)]}

\* the unit of n items whose replace_texts is followed
PlainUnit(n) == [i \in 1 .. n |-> [id |-> NodeId(i), texts |-> << <<"a">> >>]]

\* u.replace_texts(input) for a model output of any rows: the call and the
\* first extract_order
ReplaceBeginRows ==
    /\ rtpc = "start"
    /\ \E r \in 0 .. MaxRows : rtInput' \in ModelRows(Len(rtContent), r)
    /\ rtO' = ExtractOrder(rtInput', 0)[1]
    /\ rtV' = ExtractOrder(rtInput', 0)[2]
    /\ rtK' = 1
    /\ rtI' = 0
    /\ rtRes' = <<>>
    /\ rtAt' = <<>>
    /\ rtpc' = "loop"
    /\ UNCHANGED rtContent

ReplaceRowsInit ==
    /\ now = 0
    /\ NoJob
    /\ NoHandlers
    /\ NoMessageKey
    /\ NoAICall
    /\ NoSearch
    /\ NoEmbedding
    /\ NoSegment
    /\ NoRepair
    /\ NoShutdown
    /\ NoStore
    /\ NoTrim
    /\ trRow = TrNoRow
    /\ sumRow = SumNoRow
    /\ rtpc = "start"
    /\ \E n \in 0 .. MaxItems : rtContent = PlainUnit(n)
    /\ rtInput = <<>>
    /\ rtK = 0
    /\ rtO = 0
    /\ rtV = <<>>
    /\ rtI = 0
    /\ rtRes = <<>>
    /\ rtAt = <<>>

ReplaceRowsNext ==
    \/ ReplaceBeginRows /\ UNCHANGED outsideRt
    \/ ReplaceItem /\ UNCHANGED outsideRt
    \/ ReplaceEnd /\ UNCHANGED outsideRt

SpecReplaceRows == ReplaceRowsInit /\ [][ReplaceRowsNext]_vars

\* C18: replacing the texts of a unit by its own translating list gives
\* the content of the unit back: same ids, same texts, same order.
ReplaceOwnListIsContent ==
    rtpc = "done" => rtRes = rtContent

\* C18 witness: the texts of a unit of three items or more were replaced,
\* one item without texts and one whose first text reads as an order
ReplacedOwnList ==
    /\ rtpc = "done" /\ Len(rtContent) >= 3
    /\ \E i \in DOMAIN rtContent : rtContent[i].texts = <<>>
    /\ \E i \in DOMAIN rtContent :
           /\ rtContent[i].texts # <<>>
           /\ ExtractOrderSome(rtContent[i].texts)[1] > i

(***************************************************************************)
(* RawJSON (json_util.rs): the repair of a model output, and the strict    *)
(* parse of serde_json it stands in for. A string is the sequence of its   *)
(* characters; an offset counts the characters already consumed.           *)
(***************************************************************************)
outsideJs == <<now, jobVars, trRow, sumRow, handlerVars, mtVars, aiVars, embVars,
               srchVars, segVars, rtVars, sdVars, stVars, tmVars>>

\* the characters a model output is made of
Alphabet == {"[", "]", "{", "}", ":", ",", "\"", "\\", "a", "1", " "}

\* char::is_whitespace, over the alphabet
IsWhitespace(ch) == ch \in {" ", "\t", "\n", "\r"}

\* str::trim
RECURSIVE Trim(_)
Trim(str) ==
    IF str = <<>> THEN str
    ELSE IF IsWhitespace(str[1]) THEN Trim(Tail(str))
    ELSE IF IsWhitespace(str[Len(str)]) THEN Trim(SubSeq(str, 1, Len(str) - 1))
    ELSE str

\* RawJSON::skip_space
RECURSIVE SkipSpace(_, _)
SkipSpace(data, off) ==
    IF off < Len(data) /\ IsWhitespace(data[off + 1]) THEN SkipSpace(data, off + 1) ELSE off

Scanned(off, res) == [err |-> "", off |-> off, res |-> res]

ScanFailed(msg) == [err |-> msg, off |-> 0, res |-> <<>>]

\* a quote ends its text whatever follows it
CanAlwaysEndText(data, i, next_begin) == FALSE

\* RawJSON::can_not_end_text, from index i on
RECURSIVE CanNotEndText(_, _, _)
CanNotEndText(data, i, next_begin) ==
    IF i >= Len(data) THEN FALSE
    ELSE IF IsWhitespace(data[i + 1]) THEN CanNotEndText(data, i + 1, next_begin)
    ELSE IF ~next_begin
         THEN IF data[i + 1] \in {"}", "]", ","}
              THEN CanNotEndText(data, i + 1, data[i + 1] = ",")
              ELSE TRUE
         ELSE data[i + 1] \notin {"\"", "{", "["}

\* the loop of RawJSON::key
RECURSIVE KeyLoop(_, _, _)
KeyLoop(data, off, res) ==
    IF off >= Len(data) THEN ScanFailed("no token to finish object key")
    ELSE IF data[off + 1] = "\"" THEN Scanned(off + 1, Append(res, "\""))
    ELSE KeyLoop(data, off + 1, Append(res, data[off + 1]))

\* RawJSON::key
Key(data, off, res) == KeyLoop(data, off + 1, Append(res, "\""))

\* the loop of RawJSON::text
RECURSIVE TextLoop(_, _, _)
TextLoop(data, off, res) ==
    IF off >= Len(data) THEN ScanFailed("no token to finish text")
    ELSE IF data[off + 1] = "\\"
    THEN IF off + 1 >= Len(data) THEN ScanFailed("no token to scan for text")
         ELSE IF data[off + 2] \in {"\"", "\\", "/", "b", "f", "n", "r", "t", "u"}
              THEN TextLoop(data, off + 2, res \o <<"\\", data[off + 2]>>)
              ELSE TextLoop(data, off + 2, res \o <<"\\", "\\", data[off + 2]>>)
    ELSE IF data[off + 1] = "\""
    THEN LET next == SkipSpace(data, off + 1)
         IN IF next >= Len(data) THEN Scanned(next, Append(res, "\""))
            ELSE IF CanNotEndText(data, next, FALSE) THEN TextLoop(data, next, res)
            ELSE IF data[next + 1] \in {",", ":", "}", "]"}
                 THEN Scanned(next, Append(res, "\""))
                 ELSE TextLoop(data, next + 1, Append(res, data[next + 1]))
    ELSE TextLoop(data, off + 1, Append(res, data[off + 1]))

\* RawJSON::text
Text(data, off, res) == TextLoop(data, off + 1, Append(res, "\""))

RECURSIVE Array(_, _, _)
RECURSIVE ArrayLoop(_, _, _)
RECURSIVE Object(_, _, _)
RECURSIVE ObjectLoop(_, _, _)

\* RawJSON::array after a value: ',' goes on, ']' ends the array
ArrayAfterValue(data, off, res) ==
    IF off >= Len(data) THEN ScanFailed("no token to scan in array")
    ELSE IF data[off + 1] = ","
         THEN ArrayLoop(data, SkipSpace(data, off + 1), Append(res, ","))
    ELSE IF data[off + 1] = "]" THEN Scanned(off + 1, Append(res, "]"))
    ELSE ScanFailed("unsupport token to end in array")

\* the loop of RawJSON::array
ArrayLoop(data, off, res) ==
    IF off >= Len(data) THEN ScanFailed("no token to finish array")
    ELSE LET value == CASE data[off + 1] = "{" -> Object(data, off, res)
                        [] data[off + 1] = "[" -> Array(data, off, res)
                        [] data[off + 1] = "\"" -> Text(data, off, res)
                        [] OTHER -> ScanFailed("unsupport token to start in array")
         IN IF value.err # "" THEN value
            ELSE ArrayAfterValue(data, SkipSpace(data, value.off), value.res)

\* RawJSON::array
Array(data, off, res) ==
    LET next == SkipSpace(data, off + 1)
    IN IF next < Len(data) /\ data[next + 1] = "]"
       THEN Scanned(next + 1, res \o <<"[", "]">>)
       ELSE ArrayLoop(data, next, Append(res, "["))

\* RawJSON::object after a key: the colon, the value and what follows it
ObjectAfterKey(data, off, res) ==
    IF off >= Len(data) THEN ScanFailed("no token to scan in object")
    ELSE IF data[off + 1] # ":" THEN ScanFailed("unsupport token to start for object colon")
    ELSE LET at == SkipSpace(data, off + 1)
         IN IF at >= Len(data) THEN ScanFailed("no token to scan in object")
            ELSE LET value ==
                         CASE data[at + 1] = "{" -> Object(data, at, Append(res, ":"))
                           [] data[at + 1] = "[" -> Array(data, at, Append(res, ":"))
                           [] data[at + 1] = "\"" -> Text(data, at, Append(res, ":"))
                           [] OTHER -> ScanFailed("unsupport token to start for object value")
                 IN IF value.err # "" THEN value
                    ELSE LET end == SkipSpace(data, value.off)
                         IN IF end >= Len(data)
                            THEN ScanFailed("no token to scan in object")
                            ELSE IF data[end + 1] = ","
                            THEN ObjectLoop(data, SkipSpace(data, end + 1),
                                            Append(value.res, ","))
                            ELSE IF data[end + 1] = "}"
                            THEN Scanned(end + 1, Append(value.res, "}"))
                            ELSE ScanFailed("unsupport token to end in object")

\* the loop of RawJSON::object
ObjectLoop(data, off, res) ==
    IF off >= Len(data) THEN ScanFailed("no char to scan in object")
    ELSE IF data[off + 1] # "\"" THEN ScanFailed("unsupport token to start for object key")
    ELSE LET key == Key(data, off, res)
         IN IF key.err # "" THEN key
            ELSE ObjectAfterKey(data, SkipSpace(data, key.off), key.res)

\* RawJSON::object
Object(data, off, res) ==
    LET next == SkipSpace(data, off + 1)
    IN IF next < Len(data) /\ data[next + 1] = "}"
       THEN Scanned(next + 1, res \o <<"{", "}">>)
       ELSE ObjectLoop(data, next, Append(res, "{"))

\* RawJSON::new(s).fix_me(): the repaired string, or the error
FixMe(input) ==
    LET data == Trim(input)
        off == SkipSpace(data, 0)
    IN IF off = Len(data) THEN [err |-> "no token to scan", res |-> <<>>]
       ELSE LET value == CASE data[off + 1] = "[" -> Array(data, off, <<>>)
                           [] data[off + 1] = "{" -> Object(data, off, <<>>)
                           [] data[off + 1] = "\"" -> Text(data, off, <<>>)
                           [] OTHER -> ScanFailed("unknown token to start fix_me")
            IN IF value.err # "" THEN [err |-> value.err, res |-> <<>>]
               ELSE IF SkipSpace(data, value.off) < Len(data)
                    THEN [err |-> "extraneous data exist", res |-> <<>>]
                    ELSE [err |-> "", res |-> value.res]

(***************************************************************************)
(* serde_json: from_str and to_string, for the values the alphabet can     *)
(* write. A value is [t, v]: a string "s" with its characters, a number    *)
(* "n" with its digits, an array "a" with its elements, an object "o" with *)
(* its members as <<key, value>> in the order they were read.              *)
(***************************************************************************)
JsonWhitespace(ch) == ch \in {" ", "\t", "\n", "\r"}

RECURSIVE SkipJsonWhitespace(_, _)
SkipJsonWhitespace(data, off) ==
    IF off < Len(data) /\ JsonWhitespace(data[off + 1])
    THEN SkipJsonWhitespace(data, off + 1)
    ELSE off

Parsed(off, value) == [ok |-> TRUE, off |-> off, v |-> value]

ParseFailed == [ok |-> FALSE, off |-> 0, v |-> <<>>]

\* the characters of a string from off on, up to its closing quote
RECURSIVE ParseStringLoop(_, _, _)
ParseStringLoop(data, off, chars) ==
    IF off >= Len(data) THEN ParseFailed
    ELSE IF data[off + 1] = "\"" THEN Parsed(off + 1, chars)
    ELSE IF data[off + 1] = "\\"
    THEN IF off + 1 < Len(data) /\ data[off + 2] \in {"\"", "\\", "/"}
         THEN ParseStringLoop(data, off + 2, Append(chars, data[off + 2]))
         ELSE ParseFailed
    ELSE ParseStringLoop(data, off + 1, Append(chars, data[off + 1]))

\* the digits of a number from off on
RECURSIVE ParseDigits(_, _, _)
ParseDigits(data, off, digits) ==
    IF off < Len(data) /\ data[off + 1] = "1"
    THEN ParseDigits(data, off + 1, Append(digits, "1"))
    ELSE Parsed(off, digits)

RECURSIVE ParseValue(_, _)
RECURSIVE ParseElements(_, _, _)
RECURSIVE ParseMembers(_, _, _)

\* one value, leading whitespace skipped
ParseValue(data, from) ==
    LET off == SkipJsonWhitespace(data, from)
    IN IF off >= Len(data) THEN ParseFailed
       ELSE CASE data[off + 1] = "\"" ->
                     LET str == ParseStringLoop(data, off + 1, <<>>)
                     IN IF str.ok THEN Parsed(str.off, [t |-> "s", v |-> str.v])
                        ELSE ParseFailed
              [] data[off + 1] = "1" ->
                     LET num == ParseDigits(data, off, <<>>)
                     IN Parsed(num.off, [t |-> "n", v |-> num.v])
              [] data[off + 1] = "[" ->
                     LET next == SkipJsonWhitespace(data, off + 1)
                     IN IF next < Len(data) /\ data[next + 1] = "]"
                        THEN Parsed(next + 1, [t |-> "a", v |-> <<>>])
                        ELSE ParseElements(data, next, <<>>)
              [] data[off + 1] = "{" ->
                     LET next == SkipJsonWhitespace(data, off + 1)
                     IN IF next < Len(data) /\ data[next + 1] = "}"
                        THEN Parsed(next + 1, [t |-> "o", v |-> <<>>])
                        ELSE ParseMembers(data, next, <<>>)
              [] OTHER -> ParseFailed

\* the elements of an array, up to its closing bracket
ParseElements(data, off, elems) ==
    LET value == ParseValue(data, off)
    IN IF ~value.ok THEN ParseFailed
       ELSE LET next == SkipJsonWhitespace(data, value.off)
            IN IF next >= Len(data) THEN ParseFailed
               ELSE IF data[next + 1] = ","
                    THEN ParseElements(data, next + 1, Append(elems, value.v))
               ELSE IF data[next + 1] = "]"
                    THEN Parsed(next + 1, [t |-> "a", v |-> Append(elems, value.v)])
               ELSE ParseFailed

\* the members of an object, up to its closing brace
ParseMembers(data, from, members) ==
    LET off == SkipJsonWhitespace(data, from)
    IN IF off >= Len(data) \/ data[off + 1] # "\"" THEN ParseFailed
       ELSE LET key == ParseStringLoop(data, off + 1, <<>>)
                colon == IF key.ok THEN SkipJsonWhitespace(data, key.off) ELSE 0
            IN IF ~key.ok \/ colon >= Len(data) \/ data[colon + 1] # ":" THEN ParseFailed
               ELSE LET value == ParseValue(data, colon + 1)
                        next == IF value.ok THEN SkipJsonWhitespace(data, value.off) ELSE 0
                    IN IF ~value.ok \/ next >= Len(data) THEN ParseFailed
                       ELSE IF data[next + 1] = ","
                            THEN ParseMembers(data, next + 1,
                                              Append(members, <<key.v, value.v>>))
                       ELSE IF data[next + 1] = "}"
                            THEN Parsed(next + 1,
                                        [t |-> "o", v |-> Append(members, <<key.v, value.v>>)])
                       ELSE ParseFailed

\* serde_json::from_str::<Value>: one value and nothing but whitespace after
FromStr(input) ==
    LET value == ParseValue(input, 0)
    IN IF value.ok /\ SkipJsonWhitespace(input, value.off) = Len(input)
       THEN [ok |-> TRUE, v |-> value.v]
       ELSE [ok |-> FALSE, v |-> <<>>]

\* the characters of a string as to_string writes them
RECURSIVE EscapeChars(_)
EscapeChars(chars) ==
    IF chars = <<>> THEN <<>>
    ELSE (IF chars[1] \in {"\"", "\\"} THEN <<"\\", chars[1]>> ELSE <<chars[1]>>)
         \o EscapeChars(Tail(chars))

QuoteString(chars) == <<"\"">> \o EscapeChars(chars) \o <<"\"">>

RECURSIVE JsonToString(_)
RECURSIVE JoinValues(_)
RECURSIVE JoinMembers(_)

\* serde_json::to_string of a value
JsonToString(value) ==
    CASE value.t = "s" -> QuoteString(value.v)
      [] value.t = "n" -> value.v
      [] value.t = "a" -> <<"[">> \o JoinValues(value.v) \o <<"]">>
      [] value.t = "o" -> <<"{">> \o JoinMembers(value.v) \o <<"}">>

JoinValues(elems) ==
    IF elems = <<>> THEN <<>>
    ELSE JsonToString(elems[1])
         \o (IF Len(elems) > 1 THEN <<",">> \o JoinValues(Tail(elems)) ELSE <<>>)

JoinMembers(members) ==
    IF members = <<>> THEN <<>>
    ELSE QuoteString(members[1][1]) \o <<":">> \o JsonToString(members[1][2])
         \o (IF Len(members) > 1 THEN <<",">> \o JoinMembers(Tail(members)) ELSE <<>>)

\* the value is an array of arrays of strings
IsVecVecString(value) ==
    /\ value.t = "a"
    /\ \A i \in DOMAIN value.v :
           /\ value.v[i].t = "a"
           /\ \A k \in DOMAIN value.v[i].v : value.v[i].v[k].t = "s"

\* serde_json::from_str::<Vec<Vec<String>>>: the lists of strings, or the
\* failure
FromStrVecVec(input) ==
    LET parsed == FromStr(input)
    IN IF parsed.ok /\ IsVecVecString(parsed.v)
       THEN [ok |-> TRUE,
             list |-> [i \in DOMAIN parsed.v.v |->
                          [k \in DOMAIN parsed.v.v[i].v |-> parsed.v.v[i].v[k].v]]]
       ELSE [ok |-> FALSE, list |-> <<>>]

\* RawJSON::new(input).fix_me() on its own
Repair ==
    /\ jspc = "start"
    /\ jsFix' = FixMe(jsInput)
    /\ jspc' = "repaired"
    /\ UNCHANGED <<jsInput, jsContent, jsFixed, jsShape, jsRet>>

\* the lengths of the rows of a Vec<Vec<String>>
ShapeOf(list) == [i \in DOMAIN list |-> Len(list[i])]

\* a translate that fails when the rows of the content are not those of input
TranslateReturnMatching(content, input) ==
    IF content.ok /\ ShapeOf(content.list) = input THEN "ok" ELSE "500"

\* if content.is_err() { return Err(HTTPError::new(500, er)) }; a length
\* other than input.len() is put in the log; Ok((total_tokens, content))
TranslateReturn(content, input) == IF content.ok THEN "ok" ELSE "500"

\* OpenAI::translate from the content of the first choice on: the strict
\* parse, the repair when it fails, and the parse of what was repaired
TranslateParse ==
    /\ jspc = "start"
    /\ LET content == FromStrVecVec(jsInput)
           fix == FixMe(jsInput)
       IN IF content.ok
          THEN /\ jsContent' = content
               /\ UNCHANGED <<jsFix, jsFixed>>
          ELSE /\ jsFix' = fix
               /\ IF fix.err = ""
                  THEN /\ jsContent' = FromStrVecVec(fix.res)
                       /\ jsFixed' = IF jsContent'.ok THEN "true" ELSE "false"
                  ELSE /\ jsContent' = content
                       /\ jsFixed' = "false"
    /\ jsRet' = TranslateReturn(jsContent', jsShape)
    /\ jspc' = "translated"
    /\ UNCHANGED <<jsInput, jsShape>>

RepairInit ==
    /\ now = 0
    /\ NoJob
    /\ NoHandlers
    /\ NoMessageKey
    /\ NoAICall
    /\ NoSearch
    /\ NoEmbedding
    /\ NoSegment
    /\ NoReplace
    /\ trRow = TrNoRow
    /\ sumRow = SumNoRow
    /\ NoShutdown
    /\ NoStore
    /\ NoTrim
    /\ jspc = "start"
    /\ \E n \in 0 .. MaxChars : jsInput \in [1 .. n -> Alphabet]
    /\ jsFix = [err |-> "", res |-> <<>>]
    /\ jsContent = [ok |-> FALSE, list |-> <<>>]
    /\ jsFixed = "unset"
    /\ jsShape = <<>>
    /\ jsRet = "unset"

RepairNext ==
    \/ Repair /\ UNCHANGED outsideJs
    \/ TranslateParse /\ UNCHANGED outsideJs

SpecRepair == RepairInit /\ [][RepairNext]_vars

\* the characters of the outputs translate is followed on: the brackets,
\* the quote, the comma and a letter
OutputAlphabet == {"[", "]", "\"", ",", "a"}

\* the shapes of input: no row, one row of one or two texts, two rows of
\* one text
InputShapes == {<<>>, <<1>>, <<2>>, <<1, 1>>}

\* translate is called with an input of some shape and the model answered
\* with some output
TranslateOutInit ==
    /\ now = 0
    /\ NoJob
    /\ NoHandlers
    /\ NoMessageKey
    /\ NoAICall
    /\ NoSearch
    /\ NoEmbedding
    /\ NoSegment
    /\ NoReplace
    /\ trRow = TrNoRow
    /\ sumRow = SumNoRow
    /\ NoShutdown
    /\ NoStore
    /\ NoTrim
    /\ jspc = "start"
    /\ \E n \in 0 .. MaxOutChars : jsInput \in [1 .. n -> OutputAlphabet]
    /\ jsFix = [err |-> "", res |-> <<>>]
    /\ jsContent = [ok |-> FALSE, list |-> <<>>]
    /\ jsFixed = "unset"
    /\ jsShape \in InputShapes
    /\ jsRet = "unset"

TranslateOutNext == TranslateParse /\ UNCHANGED outsideJs

SpecTranslateOut == TranslateOutInit /\ [][TranslateOutNext]_vars

\* C19 as stated: an output that strict-parses as JSON is repaired with
\* success, and the repaired string is the parsed value written back by
\* to_string, that is, the output without its insignificant whitespace.
RepairOfValidIsCanonical ==
    (jspc = "repaired" /\ FromStr(jsInput).ok) =>
        /\ jsFix.err = ""
        /\ jsFix.res = JsonToString(FromStr(jsInput).v)

\* C20 as stated: an output that is an array of arrays of strings but for
\* its closing brackets, ending after its last string, is repaired to the
\* array with the brackets appended, and translate gives that array with
\* json_fixed = true.
TruncatedArrayRepaired ==
    (/\ jspc = "translated"
     /\ jsInput # <<>> /\ jsInput[Len(jsInput)] = "\""
     /\ FromStrVecVec(jsInput \o <<"]", "]">>).ok) =>
        /\ jsFix = [err |-> "", res |-> JsonToString(FromStr(jsInput \o <<"]", "]">>).v)]
        /\ jsContent = FromStrVecVec(jsInput \o <<"]", "]">>)
        /\ jsFixed = "true"

(***************************************************************************)
(* shutdown_signal (main.rs) and the sentinels app.translating and         *)
(* app.embedding that the jobs clone.                                      *)
(***************************************************************************)
outsideSd == <<now, jobVars, trRow, sumRow, handlerVars, mtVars, aiVars, embVars,
               srchVars, segVars, rtVars, jsVars, stVars, tmVars>>

\* tokio::spawn(translate(..)) in create, and tokio::spawn(embedding(..)):
\* the task lives from here on and runs when the runtime polls it
JobSpawn(kind) ==
    /\ sdpc # "returned"
    /\ IF kind = "translating"
       THEN trLive < MaxLive /\ trLive' = trLive + 1 /\ UNCHANGED embLive
       ELSE embLive < MaxLive /\ embLive' = embLive + 1 /\ UNCHANGED trLive
    /\ UNCHANGED <<sdpc, wait_secs, secs, sdWaits, trCount, embCount, translatings,
                   embeddings>>

\* the first statement of a spawned task: it clones the sentinel of its kind
SentinelClone(kind) ==
    /\ sdpc # "returned"
    /\ IF kind = "translating"
       THEN trCount - 1 < trLive /\ trCount' = trCount + 1 /\ UNCHANGED embCount
       ELSE embCount - 1 < embLive /\ embCount' = embCount + 1 /\ UNCHANGED trCount
    /\ UNCHANGED <<sdpc, wait_secs, secs, sdWaits, trLive, embLive, translatings,
                   embeddings>>

\* a job ends and its clone of the sentinel is dropped
SentinelDrop(kind) ==
    /\ sdpc # "returned"
    /\ IF kind = "translating"
       THEN /\ trCount > 1 /\ trCount' = trCount - 1 /\ trLive' = trLive - 1
            /\ UNCHANGED <<embCount, embLive>>
       ELSE /\ embCount > 1 /\ embCount' = embCount - 1 /\ embLive' = embLive - 1
            /\ UNCHANGED <<trCount, trLive>>
    /\ UNCHANGED <<sdpc, wait_secs, secs, sdWaits, translatings, embeddings>>

\* tokio::select! over ctrl_c and terminate: the signal has come
SignalReceived ==
    /\ sdpc = "serving"
    /\ secs' = wait_secs
    /\ sdpc' = "count_translating"
    /\ UNCHANGED <<wait_secs, sdWaits, trCount, embCount, trLive, embLive, translatings,
                   embeddings>>

\* let translatings = Arc::strong_count(&app.translating)
CountTranslatings ==
    /\ sdpc = "count_translating"
    /\ translatings' = trCount
    /\ sdpc' = "count_embedding"
    /\ UNCHANGED <<wait_secs, secs, sdWaits, trCount, embCount, trLive, embLive, embeddings>>

\* the loop ends as soon as either sentinel is free
GoodbyeEither(s, t, e) == s = 0 \/ (t <= 1 \/ e <= 1)

\* secs == 0 || (translatings <= 1 && embeddings <= 1)
Goodbye(s, t, e) == s = 0 \/ (t <= 1 /\ e <= 1)

\* let embeddings = Arc::strong_count(&app.embedding), and the test of the
\* loop: return, or count down and sleep
CountEmbeddings ==
    /\ sdpc = "count_embedding"
    /\ embeddings' = embCount
    /\ IF Goodbye(secs, translatings, embeddings')
       THEN sdpc' = "returned" /\ UNCHANGED secs
       ELSE sdpc' = "sleep" /\ secs' = secs - 1
    /\ UNCHANGED <<wait_secs, sdWaits, trCount, embCount, trLive, embLive, translatings>>

\* sleep(Duration::from_secs(1)).await is over
SleepOver ==
    /\ sdpc = "sleep"
    /\ sdWaits' = sdWaits + 1
    /\ sdpc' = "count_translating"
    /\ UNCHANGED <<wait_secs, secs, trCount, embCount, trLive, embLive, translatings,
                   embeddings>>

ShutdownInit ==
    /\ now = 0
    /\ NoJob
    /\ NoHandlers
    /\ NoMessageKey
    /\ NoAICall
    /\ NoSearch
    /\ NoEmbedding
    /\ NoSegment
    /\ NoReplace
    /\ NoRepair
    /\ trRow = TrNoRow
    /\ sumRow = SumNoRow
    /\ NoStore
    /\ NoTrim
    /\ sdpc = "serving"
    /\ wait_secs \in 0 .. MaxWaitSecs
    /\ secs = 0
    /\ sdWaits = 0
    /\ trCount = 1
    /\ embCount = 1
    /\ trLive = 0
    /\ embLive = 0
    /\ translatings = 0
    /\ embeddings = 0

ShutdownNext ==
    \/ \E kind \in {"translating", "embedding"} : JobSpawn(kind) /\ UNCHANGED outsideSd
    \/ \E kind \in {"translating", "embedding"} : SentinelClone(kind) /\ UNCHANGED outsideSd
    \/ \E kind \in {"translating", "embedding"} : SentinelDrop(kind) /\ UNCHANGED outsideSd
    \/ SignalReceived /\ UNCHANGED outsideSd
    \/ CountTranslatings /\ UNCHANGED outsideSd
    \/ CountEmbeddings /\ UNCHANGED outsideSd
    \/ SleepOver /\ UNCHANGED outsideSd

SpecShutdown == ShutdownInit /\ [][ShutdownNext]_vars

\* the steps of shutdown_signal after the signal
ShutdownSteps ==
    (CountTranslatings \/ CountEmbeddings \/ SleepOver) /\ UNCHANGED outsideSd

\* once the signal has come, the task of shutdown_signal is scheduled and
\* its sleeps end
SpecShutdownFair == SpecShutdown /\ WF_vars(ShutdownSteps)

\* C21: after the signal shutdown_signal returns, after graceful_shutdown
\* one-second waits at most; a poll that read both counts as 1 or less
\* returned at once (it never sleeps), and a poll that read a higher count
\* returned only when the countdown was over.
ShutdownReturnsInTime ==
    /\ [](/\ sdWaits <= wait_secs
          /\ sdpc \in {"count_translating", "count_embedding"} => sdWaits + secs = wait_secs
          /\ sdpc = "sleep" => ~(translatings <= 1 /\ embeddings <= 1)
          /\ sdpc = "returned" =>
                 \/ translatings <= 1 /\ embeddings <= 1
                 \/ sdWaits = wait_secs)
    /\ (sdpc = "count_translating") ~> (sdpc = "returned")

\* C21 witness: shutdown_signal returned after one wait and before the
\* countdown was over, the jobs that held the sentinels having ended
ReturnedEarly ==
    /\ sdpc = "returned" /\ sdWaits = 1 /\ wait_secs > 1
    /\ translatings = 1 /\ embeddings = 1

(***************************************************************************)
(* Translating::get_one and Translating::upsert_fields over the cells of   *)
(* one key (db/model_translating.rs). The table holds a cell for a column  *)
(* that was set and none for a column that was not; the key has a row when *)
(* it has a cell.                                                          *)
(***************************************************************************)
outsideSt == <<now, jobVars, trRow, sumRow, handlerVars, mtVars, aiVars, embVars,
               srchVars, segVars, rtVars, jsVars, sdVars, tmVars>>

\* Self::fields(): the columns of struct Translating
TrFields == {"gid", "cid", "language", "version"} \cup TrValidFields

\* Default::default() of a column of the struct
DefaultOf(k) ==
    CASE k \in {"progress", "updated_at", "tokens"} -> 0
      [] k = "content" -> <<>>
      [] OTHER -> ""

\* the values a request may set a name to
ValuesOf(k) ==
    CASE k = "model" -> {"gpt-4"}
      [] k = "tokens" -> {1000}
      [] k = "content" -> {<<128>>}
      [] k = "error" -> {"some error"}
      [] OTHER -> {"x"}

\* the maps that give values to some of the names of a list
RECURSIVE MapsOver(_)
MapsOver(names) ==
    IF names = <<>> THEN {<<>>}
    ELSE LET rest == MapsOver(Tail(names))
         IN rest \cup {(names[1] :> v) @@ cols : v \in ValuesOf(names[1]), cols \in rest}

\* the ColumnsMap values of an upsert_fields call
ColumnsMaps ==
    MapsOver(<<"model", "tokens", "content", "error", "gid", "owner">>)

\* the select_fields values of a get_one call
FieldSelections == SUBSET {"tokens", "error", "gid", "owner"}

\* the row is written anew: a column that is not given loses its cell
CqlInsert(cells, cols) == cols

\* UPDATE translating SET k=?,.. WHERE the key: the cells of the given
\* columns are written, the others are left
CqlUpdate(cells, cols) ==
    [k \in DOMAIN cells \cup DOMAIN cols |-> IF k \in DOMAIN cols THEN cols[k] ELSE cells[k]]

\* every map is let through
TrUpsertAny(cols) == TRUE

\* the loop of upsert_fields over cols: no name outside valid_fields
TrUpsertValid(cols) == TrUpsertOk(cols)

\* select_fields(select_fields, false): the fields to read, or the failure
TrSelectFields(fields) ==
    IF fields = {} THEN [ok |-> TRUE, fields |-> TrFields]
    ELSE IF fields \subseteq TrFields THEN [ok |-> TRUE, fields |-> fields]
    ELSE [ok |-> FALSE, fields |-> {}]

\* with_pk(..): the struct before it is filled
TrDefaultDoc == [k \in TrValidFields |-> DefaultOf(k)]

\* cols.fill(res, &fields) and self.fill(&cols): the selected columns that
\* have a cell are taken, every other field keeps its default
TrFill(cells, fields) ==
    [k \in TrValidFields |->
        IF k \in fields /\ k \in DOMAIN cells THEN cells[k] ELSE DefaultOf(k)]

\* the row of the job and handler actions that stands for the cells
RowOfCells(cells) ==
    [k \in TrValidFields \cup {"exists"} |->
        IF k = "exists" THEN cells # <<>> ELSE TrFill(cells, TrFields)[k]]

\* Translating::upsert_fields with the map cols
StUpsertFields(cols) ==
    /\ stOps < MaxOps
    /\ stOps' = stOps + 1
    /\ IF ~TrUpsertValid(cols)
       THEN /\ stLast' = [op |-> "upsert_fields", cols |-> cols, code |-> 400,
                          cells |-> stCells, queries |-> stQueries, doc |-> stDoc]
            /\ UNCHANGED <<stCells, stQueries>>
       ELSE IF cols = <<>>
       THEN \* "UPDATE translating SET  WHERE ..": the database refuses the query
            /\ stLast' = [op |-> "upsert_fields", cols |-> cols, code |-> 500,
                          cells |-> stCells, queries |-> stQueries, doc |-> stDoc]
            /\ stQueries' = stQueries + 1
            /\ UNCHANGED stCells
       ELSE /\ stLast' = [op |-> "upsert_fields", cols |-> cols, code |-> 200,
                          cells |-> stCells, queries |-> stQueries, doc |-> stDoc]
            /\ stCells' = CqlUpdate(stCells, cols)
            /\ stQueries' = stQueries + 1
    /\ UNCHANGED stDoc

\* Translating::get_one with select_fields
StGetOne(fields) ==
    /\ stOps < MaxOps
    /\ stOps' = stOps + 1
    /\ LET sel == TrSelectFields(fields)
       IN IF ~sel.ok
          THEN /\ stLast' = [op |-> "get_one", cols |-> fields, code |-> 400,
                             cells |-> stCells, queries |-> stQueries, doc |-> stDoc]
               /\ UNCHANGED <<stDoc, stQueries>>
          ELSE IF stCells = <<>>
          THEN \* single_row(): no row for the key
               /\ stLast' = [op |-> "get_one", cols |-> fields, code |-> 404,
                             cells |-> stCells, queries |-> stQueries, doc |-> stDoc]
               /\ stQueries' = stQueries + 1
               /\ UNCHANGED stDoc
          ELSE /\ stLast' = [op |-> "get_one", cols |-> fields, code |-> 200,
                             cells |-> stCells, queries |-> stQueries, doc |-> stDoc]
               /\ stDoc' = TrFill(stCells, sel.fields)
               /\ stQueries' = stQueries + 1
    /\ UNCHANGED stCells

StoreInit ==
    /\ now = 0
    /\ NoJob
    /\ NoHandlers
    /\ NoMessageKey
    /\ NoAICall
    /\ NoSearch
    /\ NoEmbedding
    /\ NoSegment
    /\ NoReplace
    /\ NoRepair
    /\ NoShutdown
    /\ NoTrim
    /\ trRow = TrNoRow
    /\ sumRow = SumNoRow
    /\ stCells = <<>>
    /\ stDoc = TrDefaultDoc
    /\ stLast = [op |-> "none"]
    /\ stQueries = 0
    /\ stOps = 0

StoreNext ==
    \/ \E cols \in ColumnsMaps : StUpsertFields(cols) /\ UNCHANGED outsideSt
    \/ \E fields \in FieldSelections : StGetOne(fields) /\ UNCHANGED outsideSt

SpecStore == StoreInit /\ [][StoreNext]_vars

\* C22: an upsert_fields call that the database took left the key with a
\* row in which each column of the map reads back as the map's value and
\* every other column reads back as before the call, which is the default
\* (0 or empty) when the key had no row; no other cell was written.
UpsertChangesGivenColumnsOnly ==
    (stLast.op = "upsert_fields" /\ stLast.code = 200) =>
        /\ stCells # <<>>
        /\ \A k \in TrValidFields :
               TrFill(stCells, TrFields)[k] =
                   IF k \in DOMAIN stLast.cols THEN stLast.cols[k]
                   ELSE TrFill(stLast.cells, TrFields)[k]
        /\ \A k \in TrFields \ DOMAIN stLast.cols :
               /\ k \in DOMAIN stCells <=> k \in DOMAIN stLast.cells
               /\ k \in DOMAIN stCells => stCells[k] = stLast.cells[k]
        /\ stLast.cells = <<>> =>
               \A k \in TrValidFields \ DOMAIN stLast.cols :
                   TrFill(stCells, TrFields)[k] = DefaultOf(k)
        /\ RowOfCells(stCells) = TrUpsertFields(RowOfCells(stLast.cells), stLast.cols)

\* C22 witness: the second upsert_fields wrote the error of a row whose
\* tokens and content the first had set, as in translating_model_works
UpsertedErrorOfExistingRow ==
    /\ stLast.op = "upsert_fields" /\ stLast.code = 200
    /\ DOMAIN stLast.cols = {"error"} /\ stLast.cols["error"] = "some error"
    /\ DOMAIN stLast.cells = {"model", "tokens", "content"}

\* C23: a get_one or upsert_fields call naming a column outside the
\* whitelist (the fields of the struct for get_one, valid_fields for
\* upsert_fields) was answered 400 with no query handed to the database, no
\* cell written and nothing read into the struct.
UnknownColumnRejectedBeforeQuery ==
    /\ (stLast.op = "upsert_fields" /\ ~(DOMAIN stLast.cols \subseteq TrValidFields)) =>
           /\ stLast.code = 400
           /\ stQueries = stLast.queries
           /\ stCells = stLast.cells
           /\ stDoc = stLast.doc
    /\ (stLast.op = "get_one" /\ ~(stLast.cols \subseteq TrFields)) =>
           /\ stLast.code = 400
           /\ stQueries = stLast.queries
           /\ stCells = stLast.cells
           /\ stDoc = stLast.doc

\* C23 witness: an upsert_fields naming a column of the key next to valid
\* columns was rejected on a row that exists
RejectedKeyColumnOfExistingRow ==
    /\ stLast.op = "upsert_fields" /\ stLast.code = 400
    /\ "gid" \in DOMAIN stLast.cols /\ "error" \in DOMAIN stLast.cols
    /\ stLast.cells # <<>>

(***************************************************************************)
(* Claims about the semaphore of a job.                                    *)
(***************************************************************************)
\* the workers whose LLM call is in flight
InFlight == {i \in Units : wpc[i] = "call"}

\* C24: a worker's failed call closes the semaphore; while it is closed a
\* worker that waits for a permit never starts its call; and the failure
\* leads to the row's error being set and the collector having returned.
FailureClosesSemaphore ==
    /\ []((\E i \in Units : wpc[i] = "failed") => closed)
    /\ [][closed => \A i \in Units : wpc[i] = "wait" => wpc'[i] # "call"]_vars
    /\ (\E i \in Units : wpc[i] = "failed") ~>
           (jpc = "failed" /\ ~rx /\ trRow.error # "")

\* C24 witness: the job returned on an error while a worker that never got
\* a permit was turned away
FailedWithWorkerTurnedAway ==
    /\ jpc = "failed" /\ trRow.error # ""
    /\ \E i \in Units : wpc[i] = "aborted"

\* C25: the LLM calls in flight are the permits taken: never more than
\* PARALLEL_WORKS, and a worker is in its call only between taking its
\* permit and giving it back.
CallsWithinPermits ==
    /\ Cardinality(InFlight) <= PARALLEL_WORKS
    /\ Cardinality(InFlight) = PARALLEL_WORKS - permits
    /\ permits >= 0

\* C25 witness: every permit is taken and a worker waits
AllPermitsTaken ==
    /\ permits = 0 /\ Cardinality(InFlight) = PARALLEL_WORKS
    /\ \E i \in Units : wpc[i] = "wait"

(***************************************************************************)
(* Claims about what a polling client and a caller of create can see.      *)
(***************************************************************************)
\* C26 as stated: a translating row that shows progress 100 and an empty
\* error holds the complete translated content, the items of every unit in
\* index order.
Progress100HasContent ==
    (trRow.progress = 100 /\ trRow.error = "") =>
        trRow.content = Cbor(ConcatUpTo([i \in Units |-> Translated(i)], pieces))

\* C27 as stated: a spawned translate job, every LLM and store call
\* returning, comes to write progress 100 or a non-empty error to its row,
\* a job whose content segments into no unit included.
TranslateWritesTerminalState ==
    <>(trRow.progress = 100 \/ trRow.error # "")

TrCreateSpawnsOncePerWindow ==
    \A g, h \in Handlers :
        ( /\ g # h
          /\ hreq[g].model = hreq[h].model
          /\ hnow[h] - hnow[g] < FreshMs /\ hnow[g] - hnow[h] < FreshMs )
        => ~(hspawned[g] /\ hspawned[h])

\* C29: once the translate job has written an error to its row, no step of
\* the job or of its workers changes the row, and a worker whose call
\* returns after that finds the receiver dropped, so its result is queued
\* nowhere.
NoWriteAfterPersistedError ==
    /\ [][trRow.error # "" => trRow' = trRow]_vars
    /\ [](trRow.error # "" => jpc \in {"failed", "encode_failed"} /\ ~rx /\ chan = <<>>)
    /\ [](\A i \in Units : wpc[i] = "unsent" => trRow.error # "")

\* C29 witness: the error is on the row, with the progress and the tokens of
\* the one result collected before it, and a sibling's call returned Ok
\* after the job had returned
SiblingDoneAfterError ==
    /\ jpc = "failed" /\ trRow.error = "LLM error"
    /\ progress = 1 /\ trRow.tokens = total_tokens
    /\ \E i \in Units : wpc[i] = "unsent"

(***************************************************************************)
(* Claims about the columns the summarizing handler gives the facade.      *)
(***************************************************************************)
\* C31 as stated: the columns a summarizing create reads (model, updated_at,
\* error) and the columns of its reset (model, updated_at, progress, tokens,
\* summary, error) are all taken by the facade, so a create that has reached
\* its read or its reset is not refused for an invalid field.
SumCreateColumnsWhitelisted ==
    \A h \in Handlers :
        hpc[h] \in {"read", "reset", "exists", "error", "done"} =>
            /\ SumSelectFieldsOk({"model", "updated_at", "error"})
            /\ SumUpsertOk(SumResetCols(hnow[h]))

(***************************************************************************)
(* Claims about the failures the embedding job goes past.                  *)
(***************************************************************************)
\* C32: the embedding job visits its groups and the units of a group one
\* after the other whatever fails: a step moves to the next unit of the
\* group at hand, or, after a failed embed call or after the last unit of
\* the group, to the next group, and never further; the job ends only
\* once every group has been at hand.
EmbeddingSkipsOnlyFailed ==
    /\ [](epc \in {"save", "point"} =>
             eg \in DOMAIN einput /\ eu \in 1 .. einput[eg])
    /\ [](epc = "done" => eg = Len(einput) + 1)
    /\ [][eversion' = eversion =>
             \/ eg' = eg /\ eu' \in {eu, eu + 1}
             \/ /\ eg' = eg + 1 /\ eu' = 0 /\ epc' = "embed"
                /\ (epc = "embed" \/ eu = einput[eg])]_vars

\* C32 witness: a job over two groups is over; nothing of the first group
\* was written and the first unit of the second group has no row, and the
\* second unit of the second group has its row and its point
EmbeddedAfterFailures ==
    /\ epc = "done" /\ eversion = 1
    /\ Len(einput) = 2 /\ einput[2] = 2
    /\ \A u \in 1 .. einput[1] : EmbeddingUuid("cid", "eng", UnitIds(1, u)) \notin embRows
    /\ EmbeddingUuid("cid", "eng", UnitIds(2, 1)) \notin embRows
    /\ EmbeddingUuid("cid", "eng", UnitIds(2, 2)) \in embPoints

(***************************************************************************)
(* Claims about what translate returns for a model output.                 *)
(***************************************************************************)
\* C33: translate repairs the output only when its strict parse failed;
\* it returns Ok with the parsed rows whenever the output or the repaired
\* output parses, whatever the lengths of input; it returns the 500 when
\* neither parses.
TranslateReturnsParsedOrFails ==
    jspc = "translated" =>
        LET strict == FromStrVecVec(jsInput)
            fix == FixMe(jsInput)
            again == IF fix.err = "" THEN FromStrVecVec(fix.res)
                     ELSE [ok |-> FALSE, list |-> <<>>]
        IN /\ (jsFixed # "unset") <=> ~strict.ok
           /\ strict.ok => jsRet = "ok" /\ jsContent = strict
           /\ (~strict.ok /\ again.ok) => jsRet = "ok" /\ jsContent = again
           /\ (~strict.ok /\ ~again.ok) => jsRet = "500"

\* C33 witness: an output that did not parse was repaired, and translate
\* returned its rows although they are not the rows of input
ReturnedRepairedOfOtherShape ==
    /\ jspc = "translated" /\ jsFixed = "true" /\ jsRet = "ok"
    /\ jsContent.ok /\ ShapeOf(jsContent.list) # jsShape

(***************************************************************************)
(* The trimming of the per-piece summaries before they are summarized once *)
(* more (api/summarizing.rs, summarize).                                   *)
(***************************************************************************)
outsideTm == <<now, jobVars, trRow, sumRow, handlerVars, mtVars, aiVars, embVars, srchVars,
    segVars, rtVars, jsVars, sdVars, stVars>>

SUMMARIZE_HIGH_TOKENS == 3000

\* tokenizer::tokens_len of a per-piece summary
SummaryTokens == {1, 1000, 1600, 3001}

\* Vec::remove(i), i counted from 0
VecRemove(list, i) == SubSeq(list, 1, i) \o SubSeq(list, i + 2, Len(list))

RECURSIVE SumOf(_)
\* tokens_list.iter().sum()
SumOf(list) == IF list = <<>> THEN 0 ELSE Head(list) + SumOf(Tail(list))

\* tokens_list.len() > 2 && tokens_list.iter().sum() > SUMMARIZE_HIGH_TOKENS
TrimNeeded(tokens) == Len(tokens) > 2 /\ SumOf(tokens) > SUMMARIZE_HIGH_TOKENS

\* one turn of the loop: i = tokens_list.len() / 2 + 1, the piece and its
\* tokens at i are removed
TrimStep ==
    /\ tmpc = "trim"
    /\ TrimNeeded(tmTokens)
    /\ LET i == Len(tmTokens) \div 2 + 1
       IN /\ tmList' = VecRemove(tmList, i)
          /\ tmTokens' = VecRemove(tmTokens, i)
    /\ UNCHANGED <<tmpc, tmCount>>

\* the loop is over: res_list.join("\n") goes to the second summarize call
TrimJoin ==
    /\ tmpc = "trim"
    /\ ~TrimNeeded(tmTokens)
    /\ tmpc' = "joined"
    /\ UNCHANGED <<tmCount, tmList, tmTokens>>

\* the collector is over with more than one per-piece summary
TrimInit ==
    /\ now = 0
    /\ NoJob
    /\ NoHandlers
    /\ NoMessageKey
    /\ NoAICall
    /\ NoSearch
    /\ NoEmbedding
    /\ NoSegment
    /\ NoReplace
    /\ NoRepair
    /\ NoShutdown
    /\ NoStore
    /\ trRow = TrNoRow
    /\ sumRow = SumNoRow
    /\ tmpc = "trim"
    /\ tmCount \in 2 .. MaxSummaries
    /\ tmList = [k \in 1 .. tmCount |-> k - 1]
    /\ tmTokens \in [1 .. tmCount -> SummaryTokens]

TrimNext ==
    \/ TrimStep /\ UNCHANGED outsideTm
    \/ TrimJoin /\ UNCHANGED outsideTm

SpecTrim == TrimInit /\ [][TrimNext]_vars

\* C34 as stated: whatever the number of per-piece summaries, the first and
\* the last of them are among the pieces left, while they are trimmed and
\* when they are joined.
TrimKeepsFirstAndLast ==
    tmpc \in {"trim", "joined"} =>
        /\ tmList[1] = 0
        /\ tmList[Len(tmList)] = tmCount - 1

(***************************************************************************)
(* Claims about what the sentinels count.                                  *)
(***************************************************************************)
\* C35 as stated: the count of each sentinel is one more than the number of
\* the live jobs of its kind at every moment, and shutdown_signal has
\* returned with a job still live only when its countdown was over.
SentinelCountsLiveJobs ==
    /\ trCount = 1 + trLive
    /\ embCount = 1 + embLive
    /\ (sdpc = "returned" /\ (trLive > 0 \/ embLive > 0)) => sdWaits = wait_secs

(***************************************************************************)
(* Claims about replace_texts over the rows of any model output.           *)
(***************************************************************************)
\* the order row j of the model output was written with: 0 when it has
\* none, -1 when the row is empty
OrderOfRow(j) == CHOOSE p \in -1 .. (Len(rtContent) + 1) : rtInput[j] = OutputRow(p, j)

\* the texts row j of the model output was written with
TextsOfRow(j) == IF rtInput[j] = <<>> THEN <<>> ELSE <<RowText(j)>>

\* row j was attached to a position
Attached(j) == j <= Len(rtAt)

\* the position the row before row j was attached to, 0 for the first row
PositionBefore(j) == IF j = 1 \/ ~Attached(j - 1) THEN 0 ELSE rtAt[j - 1]

\* C36: whatever the rows of the model output, replace_texts builds one
\* item after the other with the ids of the unit in their order, and
\* returns as many items as the unit has.
ReplaceKeepsIds ==
    /\ rtpc \in {"loop", "done"} =>
          /\ Len(rtRes) = rtI /\ rtI <= Len(rtContent)
          /\ \A i \in DOMAIN rtRes : rtRes[i].id = rtContent[i].id
    /\ rtpc = "done" => Len(rtRes) = Len(rtContent)

\* C36 witness: a unit of two items or more got its items back for an
\* output of more rows than items, one of them empty, one without order and
\* one with an order past the unit's length
ReplacedFromOddRows ==
    /\ rtpc = "done" /\ Len(rtContent) >= 2 /\ Len(rtInput) > Len(rtContent)
    /\ \E j \in DOMAIN rtInput : rtInput[j] = <<>>
    /\ \E j \in DOMAIN rtInput : OrderOfRow(j) = 0
    /\ \E j \in DOMAIN rtInput : OrderOfRow(j) > Len(rtContent)

\* every row has an order within the unit, and the orders increase
OrdersIncreaseWithin ==
    \A j \in DOMAIN rtInput :
        /\ OrderOfRow(j) \in 1 .. Len(rtContent)
        /\ j > 1 => OrderOfRow(j - 1) < OrderOfRow(j)

\* position k has the texts of the row of order k, and no texts when no
\* row has that order
PositionsByOrder ==
    \A k \in DOMAIN rtContent :
        IF \E j \in DOMAIN rtInput : OrderOfRow(j) = k
        THEN \E j \in DOMAIN rtInput : OrderOfRow(j) = k /\ rtRes[k].texts = TextsOfRow(j)
        ELSE rtRes[k].texts = <<>>

\* C37 as stated: when every row has an order within the unit and the
\* orders increase, position k has the texts of the row of order k and the
\* other positions have none; and every row without an order is attached,
\* to the position after the one of the last row attached before it, or to
\* position 1.
ReplaceByOrderOrNext ==
    rtpc = "done" =>
        /\ OrdersIncreaseWithin => PositionsByOrder
        /\ \A j \in DOMAIN rtInput : OrderOfRow(j) <= 0 =>
               /\ Attached(j)
               /\ rtAt[j] = (IF j = 1 THEN 0 ELSE rtAt[j - 1]) + 1

\* C37: when every row has an order within the unit and the orders
\* increase, position k has the texts of the row of order k and the other
\* positions have none; a row without an order is attached exactly when it
\* is the first row or the row before it was attached, and the unit has a
\* position after that row's, and it is then attached to that position;
\* an attached row's texts are the texts of its position.
ReplaceByOrderOrNextIfAny ==
    rtpc = "done" =>
        /\ OrdersIncreaseWithin => PositionsByOrder
        /\ \A j \in DOMAIN rtInput : OrderOfRow(j) <= 0 =>
               /\ Attached(j) <=>
                      /\ j = 1 \/ Attached(j - 1)
                      /\ PositionBefore(j) < Len(rtContent)
               /\ Attached(j) => rtAt[j] = PositionBefore(j) + 1
        /\ \A j \in DOMAIN rtInput :
               Attached(j) => rtRes[rtAt[j]].texts = TextsOfRow(j)

\* C37 witness: a row of order 2 or more went to the position of its
\* order, the row without order after it went to the next position, and a
\* later row without order found no position left
AttachedAfterOrderedRow ==
    /\ rtpc = "done"
    /\ \E j \in DOMAIN rtInput :
           /\ j > 1 /\ OrderOfRow(j) = 0 /\ Attached(j)
           /\ OrderOfRow(j - 1) >= 2 /\ rtAt[j - 1] = OrderOfRow(j - 1)
           /\ rtAt[j] = rtAt[j - 1] + 1
    /\ \E j \in DOMAIN rtInput : OrderOfRow(j) = 0 /\ ~Attached(j)

\* the rows whose order is not past the unit's length
RowsWithin == {j \in DOMAIN rtInput : OrderOfRow(j) <= Len(rtContent)}

\* C38 as stated: when a row has an order past the unit's length and the
\* other rows have orders within the unit that increase, every position
\* whose order one of those rows carries has that row's texts.
ReplaceDropsOnlyRowPastLength ==
    ( /\ rtpc = "done"
      /\ RowsWithin # DOMAIN rtInput
      /\ \A j \in RowsWithin : OrderOfRow(j) >= 1
      /\ \A i, j \in RowsWithin : i < j => OrderOfRow(i) < OrderOfRow(j) )
    => \A j \in RowsWithin : rtRes[OrderOfRow(j)].texts = TextsOfRow(j)

(***************************************************************************)
(* Claims about the quotes the repair scanner meets inside a text.         *)
(***************************************************************************)
\* the output, trimmed, starts a text and has no backslash: fix_me scans it
\* with RawJSON::text from its first character
TextOutput(data) ==
    /\ data # <<>> /\ data[1] = "\""
    /\ \A k \in DOMAIN data : data[k] # "\\"

NotWhitespace(ch) == ~IsWhitespace(ch)

NotQuote(ch) == ch # "\""

\* the characters after the first n, the whitespace among them left out
RestAfter(data, n) == SelectSeq(SubSeq(data, n + 1, Len(data)), NotWhitespace)

RECURSIVE AfterClosers(_)
\* a run of closing brackets is taken off the front
AfterClosers(rest) ==
    IF rest # <<>> /\ rest[1] \in {"}", "]"} THEN AfterClosers(Tail(rest)) ELSE rest

\* what follows is the end of the input, or closing brackets and then the
\* end of the input or a comma and the start of a value
FollowedByEndOrNextValue(rest) ==
    LET after == AfterClosers(rest)
    IN \/ after = <<>>
       \/ Len(after) >= 2 /\ after[1] = "," /\ after[2] \in {"\"", "{", "["}

\* the same, a comma at the very end of the input included
FollowedByEndOrComma(rest) ==
    LET after == AfterClosers(rest)
    IN \/ after = <<>>
       \/ after = <<",">>
       \/ Len(after) >= 2 /\ after[1] = "," /\ after[2] \in {"\"", "{", "["}

\* the index of the last quote among the first n characters
LastQuoteUpTo(data, n) ==
    CHOOSE q \in 1 .. n : data[q] = "\"" /\ \A k \in (q + 1) .. n : data[k] # "\""

RECURSIVE DropQuotesAndSpace(_)
\* the characters of a text without its quotes and without the whitespace
\* right after each of them
DropQuotesAndSpace(str) ==
    IF str = <<>> THEN <<>>
    ELSE IF str[1] = "\""
         THEN DropQuotesAndSpace(SubSeq(str, SkipSpace(str, 1) + 1, Len(str)))
         ELSE <<str[1]>> \o DropQuotesAndSpace(Tail(str))

\* C39 as stated: when the scanner ends the text of such an output, the
\* quote it ended at is followed by the end of the input or by closing
\* brackets and then the end or a comma and the start of a value, no
\* earlier quote inside the text is, and the text it wrote is the input's
\* up to that quote without the quotes inside it and with every other
\* character.
QuoteEndsOrIsDropped ==
    (jspc = "repaired" /\ TextOutput(Trim(jsInput))) =>
        LET data == Trim(jsInput)
            r == Text(data, 0, <<>>)
            q == LastQuoteUpTo(data, r.off)
        IN r.err = "" =>
              /\ q > 1
              /\ FollowedByEndOrNextValue(RestAfter(data, q))
              /\ \A k \in 2 .. (q - 1) :
                     data[k] = "\"" => ~FollowedByEndOrNextValue(RestAfter(data, k))
              /\ r.res = <<"\"">> \o SelectSeq(SubSeq(data, 2, q - 1), NotQuote) \o <<"\"">>
              /\ (r.off = Len(data)) => jsFix = [err |-> "", res |-> r.res]

\* C39: when the scanner ends the text of such an output, the quote it
\* ended at is followed by the end of the input or by closing brackets and
\* then the end, a comma at the end, or a comma and the start of a value,
\* no earlier quote inside the text is, and the text it wrote is the
\* input's up to that quote without the quotes inside it and without the
\* whitespace right after each of them; every other character is kept.
QuoteEndsOrIsDroppedWithSpace ==
    (jspc = "repaired" /\ TextOutput(Trim(jsInput))) =>
        LET data == Trim(jsInput)
            r == Text(data, 0, <<>>)
            q == LastQuoteUpTo(data, r.off)
        IN r.err = "" =>
              /\ q > 1
              /\ FollowedByEndOrComma(RestAfter(data, q))
              /\ \A k \in 2 .. (q - 1) :
                     data[k] = "\"" => ~FollowedByEndOrComma(RestAfter(data, k))
              /\ r.res = <<"\"">> \o DropQuotesAndSpace(SubSeq(data, 2, q - 1)) \o <<"\"">>
              /\ (r.off = Len(data)) => jsFix = [err |-> "", res |-> r.res]

\* C39 witness: a text with a quote inside it, whitespace after that quote
\* and a letter after the whitespace was repaired to the text without the
\* quote and the whitespace
QuoteAndSpaceDropped ==
    /\ jspc = "repaired" /\ TextOutput(Trim(jsInput)) /\ jsFix.err = ""
    /\ \E k \in 2 .. (Len(Trim(jsInput)) - 2) :
           /\ Trim(jsInput)[k] = "\"" /\ Trim(jsInput)[k + 1] = " "
           /\ Trim(jsInput)[k + 2] = "a"
    /\ Len(jsFix.res) = Len(Trim(jsInput)) - 2

(***************************************************************************)
(* Claims about the writes of the message-translation job to its key.      *)
(***************************************************************************)
\* C40: every update_data of a message-translation job changes at most the
\* value of the key and only while the key is in the cache: it leaves an
\* expired or absent key as it is, starts no new life of the key and keeps
\* its expiry; and the key, whenever set, expires 600 s after it came into
\* existence.
MtUpdatesKeepKeyAndTtl ==
    /\ [][(mtOut' # mtOut) =>
            /\ mtLife' = mtLife /\ mtBorn' = mtBorn
            /\ IF MtLive(mtKey, now)
               THEN /\ mtKey'.present /\ mtKey'.expires_at = mtKey.expires_at
               ELSE mtKey' = mtKey]_vars
    /\ [](mtKey.present => mtKey.expires_at = mtBorn + MtTtlMs)

\* C40 witness: one job wrote its result to the key while it was in the
\* cache, and another job's write found the key expired and left it so
MtWroteAndFoundExpired ==
    /\ mtKey.present /\ ~MtLive(mtKey, now)
    /\ mtKey.value.progress = 100
    /\ \E g, h \in Handlers :
           /\ mtOut[g].last = "absent"
           /\ mtOut[h].last = "set" /\ mtEnd[h]

====
